---- MODULE Spec2Model ----
(***************************************************************************)
(* Model of the clicky kanban board.                                       *)
(*                                                                         *)
(* Domain (src/domain/board.rs, column.rs, card.rs): the board is one      *)
(* record  [next_card_number, columns, cards]  exactly as the struct Board *)
(* holds them.  Every method of Board, Column and Card is an operator on   *)
(* these records; the public Board methods that change the board           *)
(* (create_card, generate_card_id, move_card, delete_card, add_column,     *)
(* remove_column) are actions on `board`.                                  *)
(*                                                                         *)
(* Services (src/application, src/infrastructure/storage.rs): `store` is   *)
(* the board file of one project directory, None while it does not exist.  *)
(* The methods of CardService load the board from the store, apply the     *)
(* domain operation and save the result; BoardService initialize, save and *)
(* delete write the file; `reply` records the last call, its arguments and *)
(* its result.  `prompt` is run_interactive_init between its steps: the    *)
(* check for a board, the prompts, initialize, the save of the preset.     *)
(*                                                                         *)
(* TUI (src/cli/tui): `app` is the App of app.rs with the board it has     *)
(* loaded, and with the field card_selected that mod.rs and app_tests.rs   *)
(* read and write.  Key handlers are actions.  `view` is a View of         *)
(* state.rs, the value View::toggle_help is applied to.                    *)
(* `started` is true once run (mod.rs) has made the App and loaded the     *)
(* board, `should_quit` is the flag of the loop of run_app, `events` the   *)
(* EventHandler of events.rs with its producer thread and its channel.     *)
(*                                                                         *)
(* Timestamps (created_at, updated_at) take their values from the wall     *)
(* clock and are not part of the model; id, name and card_id_prefix of the *)
(* board never change after Board::new and are constants here.             *)
(*                                                                         *)
(* Specifications:                                                         *)
(*   Spec             every public Board operation with every argument     *)
(*   SpecValid        the same, cards created into existing columns only   *)
(*   SpecCards        create/move/delete of cards on a fresh board         *)
(*   SpecColumns      cards created, columns added and removed             *)
(*   SpecAddColumn    add_column alone on a fresh board                    *)
(*   SpecReorder      cards created and moved up/down inside a column      *)
(*   SpecCardService  init, create, move, delete through the services      *)
(*   SpecUpdate       init, create and update of card fields               *)
(*   SpecBoardReorder init, create, move and reorder through the services  *)
(*   SpecInitialize   initialize, save, create and delete of the board file *)
(*   SpecView         help overlay toggled over every view                 *)
(*   SpecQuickMove    board state: cursor, selected card, quick move       *)
(*   SpecForm         card form: typing, field changes, submit, cancel     *)
(*   SpecTyping       card form with the command characters typed as well  *)
(*   SpecDialog       cursor, card detail, move and delete dialogs         *)
(*   SpecApp          every screen of the TUI, the board file removable    *)
(*   SpecRunApp       the loop of run_app: events of the channel, dispatch *)
(*                    by state, help, quit                                 *)
(*   SpecCache        every TUI action that writes the board               *)
(*   SpecOrphan       cards created into columns that may not exist        *)
(*   SpecEvents       the event thread, the channel and stop, with the     *)
(*                    fairness of the thread and of join                   *)
(***************************************************************************)
EXTENDS Integers, Sequences, FiniteSets, TLC

VARIABLES board, last, nCreates, returned, added, store, reply, view, app,
          should_quit, events, started, prompt

domainVars == <<board, last, nCreates, returned, added>>
serviceVars == <<store, reply>>
tuiVars == <<view, app>>
loopVars == <<should_quit, events, started, prompt>>

vars == <<board, last, nCreates, returned, added, store, reply, view, app,
          should_quit, events, started, prompt>>

----------------------------------------------------------------------------
(* Bounds of the model *)

(* Calls of create_card and of add_column when every Board operation runs *)
MaxCards == 2
MaxAddColumns == 1
(* Calls of create_card when only create/move/delete run on a fresh board *)
MaxFreshCards == 3
(* Calls of create_card and of add_column when cards are created and        *)
(* columns are added and removed                                            *)
MaxColumnCards == 2
MaxColumnAdds == 1
(* Calls of add_column when only add_column runs on a fresh board *)
MaxFreshColumns == 3
(* Calls of create_card when cards are reordered inside their columns *)
MaxReorderCards == 3
(* Calls of CardService::create under each specification of the services *)
MaxServiceCards == 2
MaxUpdateCards == 2
MaxBoardReorderCards == 3
MaxInitCards == 2
(* Consecutive toggles of the help overlay, and the largest card number    *)
(* and card index a view refers to                                          *)
MaxToggles == 4
MaxViewCards == 1
(* Cards created before the TUI is started with quick moves; characters    *)
(* typed into one card form, and cards created through the form             *)
MaxQuickCards == 2
MaxTyped == 2
MaxFormCards == 1
(* Characters typed into one card form and cards created through it when  *)
(* the command characters are typed as well                                 *)
MaxTypingChars == 1
MaxTypingCards == 1
(* Cards created before the TUI is started with all its screens, and       *)
(* characters typed into one of its card forms                              *)
MaxAppCards == 1
MaxAppTyped == 1
(* Cards created before the loop of run_app is started, and characters     *)
(* typed into one of its card forms                                         *)
MaxRunCards == 1
MaxRunTyped == 1
(* Events in the channel of the event handler *)
MaxQueue == 4
(* the events that wait in the channel while run_app handles the keys *)
MaxRunQueue == 1
(* Cards created into columns that may not be on the board *)
MaxOrphanCards == 2
(* Cards created by the card form of the TUI that writes the board, and    *)
(* characters typed into the form                                           *)
MaxCacheCards == 1
MaxCacheTyped == 1
(* Cards created before the TUI is started with its dialogs *)
MaxDialogCards == 2
(* Largest `order` add_column is called with *)
MaxOrder == 2

----------------------------------------------------------------------------
(* Option<T>: None is the empty tuple, Some(x) the one-element tuple *)

None == <<>>
Some(x) == <<x>>

(* Inputs *)
CardIdPrefix == "TES"
DefaultColumnId == "todo"
ColumnIds == {"todo", "in_progress", "done", "backlog"}
AddColumnIds == {"in_progress", "backlog"}
ColumnNames == {"Extra"}
Orders == 0..MaxOrder
Titles == {"Task"}
Descriptions == {None}
Assignees == {None}
(* the values `clicky update` is called with *)
NewTitles == {"Renamed"}
NewTexts == {"text"}
(* the characters typed into the card form: a space, a no-break space     *)
(* (U+00A0) and a letter                                                    *)
FormChars == {" ", " ", "a"}
(* the characters the card form reads as commands outside editing *)
CommandChars == {"k", "j", "?"}

----------------------------------------------------------------------------
(* Sequence helpers: the iterator methods the code uses *)

Contains(seq, x) == \E i \in DOMAIN seq : seq[i] = x

(* iter().position(|e| e == x): first index, 0 for Option::None *)
Position(seq, x) ==
    IF Contains(seq, x)
    THEN CHOOSE i \in DOMAIN seq : seq[i] = x /\ \A j \in 1..(i-1) : seq[j] # x
    ELSE 0

(* Vec::remove(pos) *)
RemoveAt(seq, pos) == SubSeq(seq, 1, pos-1) \o SubSeq(seq, pos+1, Len(seq))

(* columns.iter().find(|c| c.id == id): index of the first column, 0 if none *)
FindColumn(columns, id) ==
    IF \E i \in DOMAIN columns : columns[i].id = id
    THEN CHOOSE i \in DOMAIN columns :
            columns[i].id = id /\ \A j \in 1..(i-1) : columns[j].id # id
    ELSE 0

(* cards.iter().position(|c| c.id == card_id): index of the first card *)
FindCard(cards, card_id) ==
    IF \E i \in DOMAIN cards : cards[i].id = card_id
    THEN CHOOSE i \in DOMAIN cards :
            cards[i].id = card_id /\ \A j \in 1..(i-1) : cards[j].id # card_id
    ELSE 0

----------------------------------------------------------------------------
(* format!("{}-{:03}", prefix, n): the decimal digits of n, zero-padded to  *)
(* a width of at least three, after the prefix and a dash                   *)

DigitChar(d) ==
    CASE d = 0 -> "0" [] d = 1 -> "1" [] d = 2 -> "2" [] d = 3 -> "3"
      [] d = 4 -> "4" [] d = 5 -> "5" [] d = 6 -> "6" [] d = 7 -> "7"
      [] d = 8 -> "8" [] d = 9 -> "9"

RECURSIVE Digits(_)
Digits(n) == IF n < 10 THEN <<DigitChar(n)>>
             ELSE Append(Digits(n \div 10), DigitChar(n % 10))

RECURSIVE PadLeft(_, _)
PadLeft(ds, width) == IF Len(ds) >= width THEN ds ELSE PadLeft(<<"0">> \o ds, width)

FormatCardId(prefix, n) == <<prefix, "-">> \o PadLeft(Digits(n), 3)

(* The card ids the operations are called with: those of the numbers a      *)
(* counter bounded by maxCards can hand out, and one more that is never     *)
(* handed out                                                               *)
CardIdInputs(maxCards) == { FormatCardId(CardIdPrefix, n) : n \in 1..(maxCards + 1) }

----------------------------------------------------------------------------
(* Card (src/domain/card.rs) *)

Card_new(id, title, column_id) ==
    [id |-> id, title |-> title, description |-> None,
     column_id |-> column_id, assignee |-> None]

(* mutant: the card keeps its old column_id *)
Card_move_to_Stale(card, column_id) == card

Card_move_to(card, column_id) == [card EXCEPT !.column_id = column_id]

----------------------------------------------------------------------------
(* Column (src/domain/column.rs) *)

Column_new(id, name, order) ==
    [id |-> id, name |-> name, order |-> order, cards |-> <<>>]

Column_add_card(column, card_id) ==
    IF ~Contains(column.cards, card_id)
    THEN [column EXCEPT !.cards = Append(@, card_id)]
    ELSE column

Column_remove_card(column, card_id) ==
    LET pos == Position(column.cards, card_id)
    IN  IF pos # 0
        THEN [column EXCEPT !.cards = RemoveAt(@, pos)]
        ELSE column

----------------------------------------------------------------------------
(* Board (src/domain/board.rs) *)

Board_new ==
    [next_card_number |-> 1,
     columns |-> << Column_new("todo", "To Do", 0),
                    Column_new("in_progress", "In Progress", 1),
                    Column_new("done", "Done", 2) >>,
     cards |-> <<>>]

(* mutant: the counter is not advanced *)
Board_generate_card_id_NoIncrement(b) ==
    [id |-> FormatCardId(CardIdPrefix, b.next_card_number), board |-> b]

(* generate_card_id: the id, and the board with the counter advanced.  The  *)
(* counter is a u32; the actions keep it at most MaxCards + 1, far below    *)
(* the width where the addition would overflow.                             *)
Board_generate_card_id(b) ==
    [id |-> FormatCardId(CardIdPrefix, b.next_card_number),
     board |-> [b EXCEPT !.next_card_number = @ + 1]]

(* mutant: a card whose target column is not on the board is not kept *)
Board_create_card_SkipUnknown(b, title, description, assignee, column_id) ==
    LET gen == Board_generate_card_id(b)
        card_id == gen.id
        target_column == IF column_id = None THEN DefaultColumnId ELSE column_id[1]
        card == [Card_new(card_id, title, target_column)
                    EXCEPT !.description = description, !.assignee = assignee]
        ci == FindColumn(gen.board.columns, target_column)
    IN  IF ci = 0 THEN [ret |-> card_id, board |-> gen.board]
        ELSE [ret |-> card_id,
              board |-> [gen.board EXCEPT
                           !.columns = [@ EXCEPT ![ci] = Column_add_card(@, card_id)],
                           !.cards = Append(@, card)]]

Board_create_card(b, title, description, assignee, column_id) ==
    LET gen == Board_generate_card_id(b)
        card_id == gen.id
        target_column == IF column_id = None THEN DefaultColumnId ELSE column_id[1]
        card == [Card_new(card_id, title, target_column)
                    EXCEPT !.description = description, !.assignee = assignee]
        ci == FindColumn(gen.board.columns, target_column)
        columns == IF ci # 0
                   THEN [gen.board.columns EXCEPT ![ci] = Column_add_card(@, card_id)]
                   ELSE gen.board.columns
    IN  [ret |-> card_id,
         board |-> [gen.board EXCEPT !.columns = columns,
                                     !.cards = Append(@, card)]]

(* the part of move_card behind the check of the target column *)
MoveExistingCard(b, card_id, target_column_id) ==
         LET pos == FindCard(b.cards, card_id)
         IN  IF pos = 0
             THEN [ret |-> FALSE, board |-> b]
             ELSE LET source_column_id == b.cards[pos].column_id
                      si == FindColumn(b.columns, source_column_id)
                      cols1 == IF si # 0
                               THEN [b.columns EXCEPT ![si] = Column_remove_card(@, card_id)]
                               ELSE b.columns
                      ti == FindColumn(cols1, target_column_id)
                      cols2 == IF ti # 0
                               THEN [cols1 EXCEPT ![ti] = Column_add_card(@, card_id)]
                               ELSE cols1
                  IN  [ret |-> TRUE,
                       board |-> [b EXCEPT
                                    !.columns = cols2,
                                    !.cards[pos] = Card_move_to(@, target_column_id)]]

(* mutant: the target column is not checked *)
Board_move_card_NoColumnCheck(b, card_id, target_column_id) ==
    MoveExistingCard(b, card_id, target_column_id)

Board_move_card(b, card_id, target_column_id) ==
    IF ~\E i \in DOMAIN b.columns : b.columns[i].id = target_column_id
    THEN [ret |-> FALSE, board |-> b]
    ELSE MoveExistingCard(b, card_id, target_column_id)

Board_delete_card(b, card_id) ==
    LET pos == FindCard(b.cards, card_id)
    IN  IF pos # 0
        THEN LET ci == FindColumn(b.columns, b.cards[pos].column_id)
                 columns == IF ci # 0
                            THEN [b.columns EXCEPT ![ci] = Column_remove_card(@, card_id)]
                            ELSE b.columns
             IN  [ret |-> TRUE,
                  board |-> [b EXCEPT !.columns = columns,
                                      !.cards = RemoveAt(@, pos)]]
        ELSE [ret |-> FALSE, board |-> b]

(* Vec::sort_by_key(|c| c.order): a stable sort; each element is inserted   *)
(* behind the elements whose key is not larger                              *)
(* mutant: an element is inserted in front of the elements with its key *)
InsertByOrder_Unstable(sorted, c) ==
    LET k == Cardinality({ i \in DOMAIN sorted : sorted[i].order < c.order })
    IN  SubSeq(sorted, 1, k) \o <<c>> \o SubSeq(sorted, k+1, Len(sorted))

InsertByOrder(sorted, c) ==
    LET k == Cardinality({ i \in DOMAIN sorted : sorted[i].order <= c.order })
    IN  SubSeq(sorted, 1, k) \o <<c>> \o SubSeq(sorted, k+1, Len(sorted))

RECURSIVE SortByOrder(_)
SortByOrder(columns) ==
    IF columns = <<>> THEN <<>>
    ELSE InsertByOrder(SortByOrder(SubSeq(columns, 1, Len(columns)-1)),
                       columns[Len(columns)])

Board_add_column(b, id, name, order) ==
    [b EXCEPT !.columns = SortByOrder(Append(@, Column_new(id, name, order)))]

(* the loop `for card_id in cards_to_move { self.move_card(..) }` *)
RECURSIVE MoveCards(_, _, _)
MoveCards(b, cards_to_move, first_column_id) ==
    IF cards_to_move = <<>> THEN b
    ELSE MoveCards(Board_move_card(b, Head(cards_to_move), first_column_id).board,
                   Tail(cards_to_move), first_column_id)

(* the part of remove_column behind the check of the last column; `panic`   *)
(* is the unwrap() of line 218 on Option::None, when every column carries   *)
(* the id that is being removed                                             *)
RemoveFoundColumn(b, column_id) ==
    LET pos == FindColumn(b.columns, column_id)
    IN  IF pos # 0
        THEN IF \A i \in DOMAIN b.columns : b.columns[i].id = column_id
             THEN [ret |-> FALSE, panic |-> TRUE, board |-> b]
             ELSE LET cards_to_move == b.columns[pos].cards
                      fi == CHOOSE i \in DOMAIN b.columns :
                               /\ b.columns[i].id # column_id
                               /\ \A j \in 1..(i-1) : b.columns[j].id = column_id
                      first_column_id == b.columns[fi].id
                      moved == MoveCards(b, cards_to_move, first_column_id)
                  IN  [ret |-> TRUE, panic |-> FALSE,
                       board |-> [moved EXCEPT !.columns = RemoveAt(@, pos)]]
        ELSE [ret |-> FALSE, panic |-> FALSE, board |-> b]

(* mutant: the last column is not refused *)
Board_remove_column_OffByOne(b, column_id) ==
    IF Len(b.columns) < 1
    THEN [ret |-> FALSE, panic |-> FALSE, board |-> b]
    ELSE RemoveFoundColumn(b, column_id)

Board_remove_column(b, column_id) ==
    IF Len(b.columns) <= 1
    THEN [ret |-> FALSE, panic |-> FALSE, board |-> b]
    ELSE RemoveFoundColumn(b, column_id)

----------------------------------------------------------------------------
(* Column: manual order (Column::move_card_up / move_card_down).  The       *)
(* methods are called by src/domain/column_tests.rs; they swap the id with  *)
(* its neighbour and return whether they did.                               *)

Swap(seq, i, j) == [seq EXCEPT ![i] = seq[j], ![j] = seq[i]]

(* mutant: the first id is accepted and stays where it is *)
Column_move_card_up_NoEdge(column, card_id) ==
    LET pos == Position(column.cards, card_id)
    IN  IF pos > 0
        THEN [ret |-> TRUE,
              column |-> IF pos > 1 THEN [column EXCEPT !.cards = Swap(@, pos-1, pos)]
                         ELSE column]
        ELSE [ret |-> FALSE, column |-> column]

Column_move_card_up(column, card_id) ==
    LET pos == Position(column.cards, card_id)
    IN  IF pos > 1
        THEN [ret |-> TRUE, column |-> [column EXCEPT !.cards = Swap(@, pos-1, pos)]]
        ELSE [ret |-> FALSE, column |-> column]

Column_move_card_down(column, card_id) ==
    LET pos == Position(column.cards, card_id)
    IN  IF pos > 0 /\ pos < Len(column.cards)
        THEN [ret |-> TRUE, column |-> [column EXCEPT !.cards = Swap(@, pos, pos+1)]]
        ELSE [ret |-> FALSE, column |-> column]

----------------------------------------------------------------------------
(* Card setters (src/domain/card.rs) *)

Card_set_title(card, title) == [card EXCEPT !.title = title]

Card_set_description(card, description) == [card EXCEPT !.description = description]

Card_set_assignee(card, assignee) == [card EXCEPT !.assignee = assignee]

----------------------------------------------------------------------------
(* Persistence (src/infrastructure/storage.rs) and BoardService              *)
(* (src/application/board_service.rs).  The store is the file               *)
(* <base_path>/.clicky/board.json: None when the file does not exist,       *)
(* Some(board) when it does.  Board, Column and Card derive Serialize and   *)
(* Deserialize without any field attribute, so the document holds every     *)
(* field of the record and load returns the record that save wrote.  The    *)
(* file system is taken to work: StorageError::Io is not modelled.          *)

JsonBoardRepository_exists(st) == st # None

JsonBoardRepository_save(st, b) == Some(b)

JsonBoardRepository_load(st) ==
    IF st = None
    THEN [res |-> "Storage", board |-> None]
    ELSE [res |-> "Ok", board |-> Some(st[1])]

(* The result of a service call: `res` is "Ok" or the name of the error     *)
(* variant, `store` the file afterwards, `board` the board and `card_id`    *)
(* the id handed back on success.                                           *)
Failed(res, st) == [res |-> res, store |-> st, board |-> None, card_id |-> None]

Done(b, card_id) ==
    [res |-> "Ok", store |-> JsonBoardRepository_save(None, b), board |-> Some(b),
     card_id |-> card_id]

(* mutant: an existing board is overwritten *)
BoardService_initialize_Overwrite(st) == Done(Board_new, None)

BoardService_initialize(st) ==
    IF JsonBoardRepository_exists(st)
    THEN Failed("AlreadyInitialized", st)
    ELSE Done(Board_new, None)

(* save writes the board it is given, whether a board is stored or not *)
BoardService_save(st, b) == Done(b, None)

BoardService_load(st) ==
    IF ~JsonBoardRepository_exists(st)
    THEN [res |-> "BoardNotFound", board |-> None]
    ELSE JsonBoardRepository_load(st)

BoardService_delete(st) ==
    IF st = None
    THEN Failed("Storage", st)
    ELSE [res |-> "Ok", store |-> None, board |-> None, card_id |-> None]

(* reorder_card_in_column(base_path, card_id, direction): called by         *)
(* src/application/board_service_tests.rs.  It loads the board, looks the   *)
(* column up through the card's column_id, calls Column::move_card_up or    *)
(* move_card_down and saves; it fails when the card or its column is not    *)
(* found and when the column rejects the move.                              *)
(* mutant: a rejected move is saved and reported as success *)
BoardService_reorder_card_in_column_Lenient(st, card_id, direction) ==
    LET l == BoardService_load(st)
    IN  IF l.res # "Ok" THEN Failed(l.res, st)
        ELSE Done(l.board[1], None)

BoardService_reorder_card_in_column(st, card_id, direction) ==
    LET l == BoardService_load(st)
    IN  IF l.res # "Ok" THEN Failed(l.res, st)
        ELSE LET b == l.board[1]
                 pos == FindCard(b.cards, card_id)
             IN  IF pos = 0 THEN Failed("CardNotFound", st)
                 ELSE LET ci == FindColumn(b.columns, b.cards[pos].column_id)
                      IN  IF ci = 0 THEN Failed("ColumnNotFound", st)
                          ELSE LET m == IF direction = "Up"
                                        THEN Column_move_card_up(b.columns[ci], card_id)
                                        ELSE Column_move_card_down(b.columns[ci], card_id)
                               IN  IF ~m.ret THEN Failed("EdgeOfSequence", st)
                                   ELSE Done([b EXCEPT !.columns[ci] = m.column], None)

(* run_interactive_init (src/cli/interactive/init_prompt.rs 52-79): the     *)
(* board of the column preset the user chose, made from the board that      *)
(* initialize returned.  Default, Custom and no customization keep it.      *)
Presets == {"Default", "Simple", "Development", "Custom"}

run_interactive_init_board(b, preset) ==
    CASE preset = "Simple" -> Board_remove_column(b, "in_progress").board
      [] preset = "Development" ->
            LET b1 == Board_add_column(b, "backlog", "Backlog", 0)
                b2 == Board_add_column(b1, "review", "Review", 2)
                b3 == Board_remove_column(b2, "todo").board
            IN  [b3 EXCEPT !.columns = SortByOrder(@)]
      [] OTHER -> b

----------------------------------------------------------------------------
(* CardService (src/application/card_service.rs) *)

CardService_create(st, title, description, assignee, column_id) ==
    LET l == BoardService_load(st)
    IN  IF l.res # "Ok" THEN Failed(l.res, st)
        ELSE LET b == l.board[1]
             IN  IF /\ column_id # None
                    /\ ~\E i \in DOMAIN b.columns : b.columns[i].id = column_id[1]
                 THEN Failed("ColumnNotFound", st)
                 ELSE LET r == Board_create_card(b, title, description, assignee, column_id)
                      IN  Done(r.board, Some(r.ret))

(* mutant: the column is validated before the card *)
CardService_move_to_ColumnFirst(st, card_id, column_id) ==
    LET l == BoardService_load(st)
    IN  IF l.res # "Ok" THEN Failed(l.res, st)
        ELSE LET b == l.board[1]
             IN  IF ~\E i \in DOMAIN b.columns : b.columns[i].id = column_id
                 THEN Failed("ColumnNotFound", st)
                 ELSE IF FindCard(b.cards, card_id) = 0
                 THEN Failed("CardNotFound", st)
                 ELSE Done(Board_move_card(b, card_id, column_id).board, None)

CardService_move_to(st, card_id, column_id) ==
    LET l == BoardService_load(st)
    IN  IF l.res # "Ok" THEN Failed(l.res, st)
        ELSE LET b == l.board[1]
             IN  IF FindCard(b.cards, card_id) = 0
                 THEN Failed("CardNotFound", st)
                 ELSE IF ~\E i \in DOMAIN b.columns : b.columns[i].id = column_id
                 THEN Failed("ColumnNotFound", st)
                 ELSE LET r == Board_move_card(b, card_id, column_id)
                      IN  IF ~r.ret THEN Failed("CardNotFound", st)
                          ELSE Done(r.board, None)

(* mutant: an omitted description clears the field *)
CardService_update_ClearOmitted(st, card_id, title, description, assignee) ==
    LET l == BoardService_load(st)
    IN  IF l.res # "Ok" THEN Failed(l.res, st)
        ELSE LET b == l.board[1]
                 pos == FindCard(b.cards, card_id)
             IN  IF pos = 0 THEN Failed("CardNotFound", st)
                 ELSE LET c1 == IF title # None
                                THEN Card_set_title(b.cards[pos], title[1])
                                ELSE b.cards[pos]
                          c2 == Card_set_description(c1,
                                   IF description # None THEN description[1] ELSE None)
                          c3 == IF assignee # None
                                THEN Card_set_assignee(c2, assignee[1])
                                ELSE c2
                      IN  Done([b EXCEPT !.cards[pos] = c3], None)

(* title: Option<String>; description, assignee: Option<Option<String>> *)
CardService_update(st, card_id, title, description, assignee) ==
    LET l == BoardService_load(st)
    IN  IF l.res # "Ok" THEN Failed(l.res, st)
        ELSE LET b == l.board[1]
                 pos == FindCard(b.cards, card_id)
             IN  IF pos = 0 THEN Failed("CardNotFound", st)
                 ELSE LET c1 == IF title # None
                                THEN Card_set_title(b.cards[pos], title[1])
                                ELSE b.cards[pos]
                          c2 == IF description # None
                                THEN Card_set_description(c1, description[1])
                                ELSE c1
                          c3 == IF assignee # None
                                THEN Card_set_assignee(c2, assignee[1])
                                ELSE c2
                      IN  Done([b EXCEPT !.cards[pos] = c3], None)

CardService_delete(st, card_id) ==
    LET l == BoardService_load(st)
    IN  IF l.res # "Ok" THEN Failed(l.res, st)
        ELSE LET r == Board_delete_card(l.board[1], card_id)
             IN  IF ~r.ret THEN Failed("CardNotFound", st)
                 ELSE Done(r.board, None)

(* cmd_update (src/main.rs): the flags of `clicky update` become the nested *)
(* options of CardService::update                                           *)
cmd_update_arg(value, clear) ==
    IF clear THEN Some(None)
    ELSE IF value = None THEN None ELSE Some(Some(value[1]))

----------------------------------------------------------------------------
(* Text typed into the card form: a sequence of characters.  str::trim      *)
(* removes the white space at both ends: the characters char::is_whitespace *)
(* is true for, which are those of the Unicode property White_Space.  The   *)
(* set lists U+0009..U+000D, U+0020, U+0085, U+00A0 and U+1680; a string    *)
(* of TLA+ cannot hold the others (U+2000..U+200A, U+2028, U+2029, U+202F,  *)
(* U+205F, U+3000).                                                         *)

IsWhitespace(c) ==
    c \in {"\t", "\n", "", "\f", "\r", " ", "", " ", " "}

RECURSIVE TrimStart(_)
TrimStart(s) == IF s # <<>> /\ IsWhitespace(Head(s)) THEN TrimStart(Tail(s)) ELSE s

RECURSIVE TrimEnd(_)
TrimEnd(s) ==
    IF s # <<>> /\ IsWhitespace(s[Len(s)]) THEN TrimEnd(SubSeq(s, 1, Len(s)-1)) ELSE s

Trim(s) == TrimEnd(TrimStart(s))

----------------------------------------------------------------------------
(* View (src/cli/tui/state.rs): the tagged union of the screens.  Indices   *)
(* are usize and start at 0 as in the code.                                 *)

Selection_None == [tag |-> "None"]
Selection_Highlighted(column, card_index) ==
    [tag |-> "Highlighted", column |-> column, card_index |-> card_index]
Selection_Selected(card_id) == [tag |-> "Selected", card_id |-> card_id]

View_Board(selected_column, selection) ==
    [tag |-> "Board", selected_column |-> selected_column, selection |-> selection]
View_CardDetail(card_id) == [tag |-> "CardDetail", card_id |-> card_id]
View_CardForm(mode) == [tag |-> "CardForm", mode |-> mode]
View_MoveCard(card_id, target_column) ==
    [tag |-> "MoveCard", card_id |-> card_id, target_column |-> target_column]
View_ConfirmDelete(card_id) == [tag |-> "ConfirmDelete", card_id |-> card_id]
View_Help(previous) == [tag |-> "Help", previous |-> previous]

FormMode_Create(column_id) == [tag |-> "Create", column_id |-> column_id]
FormMode_Edit(card_id) == [tag |-> "Edit", card_id |-> card_id]

View_default == View_Board(0, Selection_None)

(* mutant: help is pushed on top of whatever is shown *)
View_toggle_help_Push(v) == View_Help(v)

View_toggle_help(v) ==
    IF v.tag = "Help" THEN v.previous ELSE View_Help(v)

(* the cards of a column as the TUI lists them (App::selected_card_id):     *)
(* Board.cards filtered by column_id                                        *)
CardsShownIn(b, column_index) ==
    IF column_index < Len(b.columns)
    THEN SelectSeq(b.cards, LAMBDA c : c.column_id = b.columns[column_index + 1].id)
    ELSE <<>>

----------------------------------------------------------------------------
(* App (src/cli/tui/app.rs).  card_selected is the field the handlers of   *)
(* mod.rs and the tests of app_tests.rs read and write: the card under the  *)
(* cursor is confirmed as selected.  No method of app.rs touches it.        *)

CardFormData_default ==
    [title |-> <<>>, description |-> <<>>, assignee |-> <<>>,
     current_field |-> "Title", input_mode |-> "Normal"]

App_new ==
    [state |-> "Board", focus |-> "Columns", input_mode |-> "Normal",
     board |-> None, selected_column |-> 0, selected_card |-> None,
     selected_target_column |-> 0, error_message |-> None, show_help |-> FALSE,
     form_field |-> "Title", form_data |-> CardFormData_default,
     editing_card_id |-> None, card_selected |-> FALSE]

App_clear_error(a) == [a EXCEPT !.error_message = None]

App_toggle_help(a) ==
    LET t == [a EXCEPT !.show_help = ~@]
    IN  IF ~t.show_help THEN App_clear_error(t) ELSE t

App_load_board(a, st) ==
    IF JsonBoardRepository_exists(st)
    THEN [a EXCEPT !.board = BoardService_load(st).board, !.error_message = None]
    ELSE [a EXCEPT !.error_message = Some("No board found. Run 'clicky init' to create one.")]

App_get_current_column(a) ==
    IF a.board # None /\ a.selected_column < Len(a.board[1].columns)
    THEN Some(a.board[1].columns[a.selected_column + 1].id)
    ELSE None

App_move_left(a) ==
    IF a.selected_column > 0
    THEN [a EXCEPT !.selected_column = @ - 1, !.selected_card = None,
                   !.focus = "Columns"]
    ELSE a

(* mutant: the cursor changes the column and keeps the highlighted index *)
App_move_right_KeepCard(a) ==
    IF a.board # None /\ a.selected_column + 1 < Len(a.board[1].columns)
    THEN [a EXCEPT !.selected_column = @ + 1]
    ELSE a

App_move_right(a) ==
    IF a.board # None /\ a.selected_column + 1 < Len(a.board[1].columns)
    THEN [a EXCEPT !.selected_column = @ + 1, !.selected_card = None,
                   !.focus = "Columns"]
    ELSE a

App_clear_form(a) ==
    [a EXCEPT !.form_data = CardFormData_default, !.form_field = "Title",
              !.input_mode = "Normal", !.editing_card_id = None]

App_start_create_card(a) ==
    [App_clear_form(a) EXCEPT !.state = "CreateCard", !.form_field = "Title",
                              !.input_mode = "Normal"]

App_next_form_field(a) ==
    [a EXCEPT !.form_field = CASE @ = "Title" -> "Description"
                               [] @ = "Description" -> "Assignee"
                               [] OTHER -> "Title"]

App_prev_form_field(a) ==
    [a EXCEPT !.form_field = CASE @ = "Title" -> "Assignee"
                               [] @ = "Description" -> "Title"
                               [] OTHER -> "Description"]

(* get_current_field_input_mut followed by String::push *)
App_push_input(a, c) ==
    CASE a.form_field = "Title" -> [a EXCEPT !.form_data.title = Append(@, c)]
      [] a.form_field = "Description" -> [a EXCEPT !.form_data.description = Append(@, c)]
      [] OTHER -> [a EXCEPT !.form_data.assignee = Append(@, c)]

(* mutant: a blank title is submitted *)
App_submit_card_NoTitleCheck(a, st) ==
    LET r == CardService_create(st, Trim(a.form_data.title), None, None,
                                IF App_get_current_column(a) = None
                                THEN Some("todo") ELSE App_get_current_column(a))
    IN  IF r.res # "Ok" THEN [app |-> a, store |-> st, res |-> r.res]
        ELSE [app |-> [App_clear_form(App_load_board(a, r.store)) EXCEPT !.state = "Board"],
              store |-> r.store, res |-> "Ok"]

(* submit_card: the result is Ok(()) or the error of the `?` operator *)
App_submit_card(a, st) ==
    LET title == Trim(a.form_data.title)
    IN  IF title = <<>>
        THEN [app |-> [a EXCEPT !.error_message = Some("Title is required")],
              store |-> st, res |-> "Ok"]
        ELSE LET description == IF Trim(a.form_data.description) = <<>> THEN None
                                ELSE Some(a.form_data.description)
                 assignee == IF Trim(a.form_data.assignee) = <<>> THEN None
                             ELSE Some(a.form_data.assignee)
                 column_id == IF App_get_current_column(a) = None THEN "todo"
                              ELSE App_get_current_column(a)[1]
                 r == CardService_create(st, title, description, assignee,
                                         Some(column_id))
             IN  IF r.res # "Ok" THEN [app |-> a, store |-> st, res |-> r.res]
                 ELSE [app |-> [App_clear_form(App_load_board(a, r.store))
                                   EXCEPT !.state = "Board"],
                       store |-> r.store, res |-> "Ok"]

(* mutant: cancelling keeps what was typed *)
App_cancel_card_KeepForm(a) == [a EXCEPT !.state = "Board"]

App_cancel_card(a) == [App_clear_form(a) EXCEPT !.state = "Board"]

(* String::pop on the field that has the focus *)
App_pop_input(a) ==
    LET pop(t) == IF t = <<>> THEN t ELSE SubSeq(t, 1, Len(t) - 1)
    IN  CASE a.form_field = "Title" -> [a EXCEPT !.form_data.title = pop(@)]
          [] a.form_field = "Description" -> [a EXCEPT !.form_data.description = pop(@)]
          [] OTHER -> [a EXCEPT !.form_data.assignee = pop(@)]

(* handle_create_card_input (src/cli/tui/mod.rs): one key in the card form. *)
(* A key is [code |-> "Enter"], "Esc", "Up", "Down", "Backspace" or         *)
(* [code |-> "Char", c |-> the character].  The result of submit_card is    *)
(* dropped by the handler (`let _ =`).                                      *)
Key(code) == [code |-> code, c |-> ""]
Char(c) == [code |-> "Char", c |-> c]

handle_create_card_input(a, st, key) ==
    IF a.input_mode = "Normal"
    THEN CASE key.code = "Up" \/ key = Char("k") ->
                 [app |-> App_prev_form_field(a), store |-> st]
           [] key.code = "Down" \/ key = Char("j") ->
                 [app |-> App_next_form_field(a), store |-> st]
           [] key.code = "Enter" ->
                 [app |-> App_submit_card(a, st).app, store |-> App_submit_card(a, st).store]
           [] key.code = "Esc" -> [app |-> App_cancel_card(a), store |-> st]
           [] key = Char("?") -> [app |-> App_toggle_help(a), store |-> st]
           [] key.code = "Char" /\ key.c \notin {"k", "j", "?"} ->
                 [app |-> App_push_input([a EXCEPT !.input_mode = "Editing"], key.c),
                  store |-> st]
           [] OTHER -> [app |-> a, store |-> st]
    ELSE CASE key.code = "Char" -> [app |-> App_push_input(a, key.c), store |-> st]
           [] key.code = "Backspace" -> [app |-> App_pop_input(a), store |-> st]
           [] key.code = "Enter" ->
                 [app |-> [App_next_form_field(a) EXCEPT !.input_mode = "Normal"],
                  store |-> st]
           [] key.code = "Esc" -> [app |-> [a EXCEPT !.input_mode = "Normal"], store |-> st]
           [] OTHER -> [app |-> a, store |-> st]

(* ---- The cursor, the card detail, the move dialog and the delete ----   *)
(* ---- confirmation of App (src/cli/tui/app.rs, mod.rs)            ----   *)

(* the card the detail view, the move dialog and the delete confirmation   *)
(* work on: the selected_card-th card of Board.cards with the column_id of *)
(* the selected column                                                      *)
App_selected_card_id(a) ==
    IF a.board # None /\ a.selected_card # None
    THEN LET cards_in_column == CardsShownIn(a.board[1], a.selected_column)
         IN  IF a.selected_card[1] < Len(cards_in_column)
             THEN Some(cards_in_column[a.selected_card[1] + 1].id)
             ELSE None
    ELSE None

App_move_up(a) ==
    IF a.selected_card # None
    THEN IF a.selected_card[1] > 0
         THEN [a EXCEPT !.selected_card = Some(@[1] - 1)]
         ELSE a
    ELSE IF a.board # None /\ a.selected_column < Len(a.board[1].columns)
    THEN LET card_count == Len(CardsShownIn(a.board[1], a.selected_column))
         IN  IF card_count > 0
             THEN [a EXCEPT !.selected_card = Some(card_count - 1), !.focus = "Cards"]
             ELSE a
    ELSE a

App_move_down(a) ==
    IF a.board # None /\ a.selected_column < Len(a.board[1].columns)
    THEN LET card_count == Len(CardsShownIn(a.board[1], a.selected_column))
             current_idx == IF a.selected_card = None THEN 0 ELSE a.selected_card[1]
         IN  IF current_idx + 1 < card_count
             THEN [a EXCEPT !.selected_card = Some(current_idx + 1), !.focus = "Cards"]
             ELSE a
    ELSE a

App_enter_cards(a) == [a EXCEPT !.focus = "Cards", !.selected_card = Some(0)]

App_enter_card_detail(a) ==
    IF a.focus = "Cards" /\ a.selected_card # None
    THEN [a EXCEPT !.state = "CardDetail"]
    ELSE a

App_exit_cards(a) == [a EXCEPT !.focus = "Columns", !.selected_card = None]

(* mutant: the dialog always opens on the first column *)
App_start_move_card_First(a) ==
    IF App_selected_card_id(a) # None
    THEN App_clear_error([a EXCEPT !.state = "MoveCard", !.selected_target_column = 0])
    ELSE a

App_start_move_card(a) ==
    LET card_id == App_selected_card_id(a)
    IN  IF card_id # None
        THEN LET b == a.board[1]
                 i == FindCard(b.cards, card_id[1])
                 p == IF i = 0 THEN 0 ELSE FindColumn(b.columns, b.cards[i].column_id)
             IN  App_clear_error(
                   [a EXCEPT !.state = "MoveCard",
                             !.selected_target_column =
                                 IF i = 0 THEN @ ELSE IF p = 0 THEN 0 ELSE p - 1])
        ELSE a

App_move_card_left(a) ==
    IF a.selected_target_column > 0
    THEN [a EXCEPT !.selected_target_column = @ - 1]
    ELSE a

(* mutant: the target moves past the last column *)
App_move_card_right_Unclamped(a) ==
    [a EXCEPT !.selected_target_column = @ + 1]

App_move_card_right(a) ==
    IF a.board # None /\ a.selected_target_column + 1 < Len(a.board[1].columns)
    THEN [a EXCEPT !.selected_target_column = @ + 1]
    ELSE a

(* confirm_move_card: the result is Ok(()) or the error of `?`; the state  *)
(* of the app changes only after the move and the reload succeeded          *)
(* mutant: the card is moved in the store and the board is not reloaded *)
App_confirm_move_card_NoReload(a, st) ==
    LET card_id == App_selected_card_id(a)
    IN  IF card_id = None
        THEN [app |-> a, store |-> st, res |-> "No card selected"]
        ELSE IF ~(a.board # None /\ a.selected_target_column < Len(a.board[1].columns))
        THEN [app |-> a, store |-> st, res |-> "Invalid target column"]
        ELSE LET target_column_id == a.board[1].columns[a.selected_target_column + 1].id
                 r == CardService_move_to(st, card_id[1], target_column_id)
             IN  IF r.res # "Ok" THEN [app |-> a, store |-> st, res |-> r.res]
                 ELSE [app |-> App_clear_error([a EXCEPT !.state = "CardDetail"]),
                       store |-> r.store, res |-> "Ok"]

App_confirm_move_card(a, st) ==
    LET card_id == App_selected_card_id(a)
    IN  IF card_id = None
        THEN [app |-> a, store |-> st, res |-> "No card selected"]
        ELSE IF ~(a.board # None /\ a.selected_target_column < Len(a.board[1].columns))
        THEN [app |-> a, store |-> st, res |-> "Invalid target column"]
        ELSE LET target_column_id == a.board[1].columns[a.selected_target_column + 1].id
                 r == CardService_move_to(st, card_id[1], target_column_id)
             IN  IF r.res # "Ok" THEN [app |-> a, store |-> st, res |-> r.res]
                 ELSE [app |-> App_clear_error(
                                 [App_load_board(a, r.store) EXCEPT !.state = "CardDetail"]),
                       store |-> r.store, res |-> "Ok"]

(* mutant: cancelling the dialog closes the card as well *)
App_cancel_move_card_ToBoard(a) ==
    App_clear_error([a EXCEPT !.state = "Board", !.selected_card = None])

App_cancel_move_card(a) == App_clear_error([a EXCEPT !.state = "CardDetail"])

(* handle_move_card_input: the error of confirm_move_card becomes the       *)
(* error message "Failed to move card: {e}"                                 *)
handle_move_card_input(a, st, key) ==
    CASE key.code = "Left" \/ key = Char("h") ->
            [app |-> App_move_card_left(a), store |-> st, res |-> "Ok"]
      [] key.code = "Right" \/ key = Char("l") ->
            [app |-> App_move_card_right(a), store |-> st, res |-> "Ok"]
      [] key.code = "Enter" ->
            LET r == App_confirm_move_card(a, st)
            IN  IF r.res # "Ok"
                THEN [app |-> [a EXCEPT !.error_message = Some("Failed to move card")],
                      store |-> st, res |-> r.res]
                ELSE r
      [] key.code = "Esc" -> [app |-> App_cancel_move_card(a), store |-> st, res |-> "Ok"]
      [] key = Char("?") -> [app |-> App_toggle_help(a), store |-> st, res |-> "Ok"]
      [] OTHER -> [app |-> a, store |-> st, res |-> "Ok"]

(* handle_confirm_delete_input: 'y' deletes the card under the cursor       *)
(* through CardService::delete; the error becomes "Failed to delete: {e}"   *)
handle_confirm_delete_input(a, st, key) ==
    CASE key = Char("y") ->
            LET card_id == App_selected_card_id(a)
            IN  IF card_id = None THEN [app |-> a, store |-> st, res |-> "Ok"]
                ELSE LET r == CardService_delete(st, card_id[1])
                     IN  IF r.res = "Ok"
                         THEN [app |-> [App_load_board([a EXCEPT !.selected_card = None],
                                                       r.store)
                                           EXCEPT !.state = "Board"],
                               store |-> r.store, res |-> "Ok"]
                         ELSE [app |-> [a EXCEPT !.error_message = Some("Failed to delete"),
                                                 !.state = "CardDetail"],
                               store |-> st, res |-> r.res]
      [] key = Char("n") \/ key.code = "Esc" ->
            [app |-> [a EXCEPT !.state = "CardDetail"], store |-> st, res |-> "Ok"]
      [] key = Char("?") -> [app |-> App_toggle_help(a), store |-> st, res |-> "Ok"]
      [] OTHER -> [app |-> a, store |-> st, res |-> "Ok"]

(* quick_move_card_left / quick_move_card_right: called by                  *)
(* handle_board_input (src/cli/tui/mod.rs) and by app_tests.rs.  With a     *)
(* selected card it moves the card to the adjacent column through           *)
(* CardService::move_to, reloads the board and follows the card with        *)
(* selected_column and with the cursor, the card staying selected; without  *)
(* a selected card and at the edge column it returns Ok(()) and does        *)
(* nothing; a failed move attaches the error to the app.                    *)
IndexShownIn(b, column_index, card_id) ==
    LET shown == CardsShownIn(b, column_index)
        at == { k \in DOMAIN shown : shown[k].id = card_id }
    IN  IF at = {} THEN None ELSE Some((CHOOSE k \in at : TRUE) - 1)

(* mutant: the card is moved but selected_column stays behind *)
App_quick_move_card_Stay(a, st, direction) ==
    IF ~a.card_selected \/ App_selected_card_id(a) = None
    THEN [app |-> a, store |-> st, res |-> "Ok"]
    ELSE LET n == Len(a.board[1].columns)
             i == a.selected_column
             card_id == App_selected_card_id(a)[1]
         IN  IF (direction = "Right" /\ i + 1 >= n) \/ (direction = "Left" /\ i = 0)
             THEN [app |-> a, store |-> st, res |-> "Ok"]
             ELSE LET j == IF direction = "Right" THEN i + 1 ELSE i - 1
                      r == CardService_move_to(st, card_id, a.board[1].columns[j + 1].id)
                  IN  IF r.res # "Ok"
                      THEN [app |-> [a EXCEPT !.error_message = Some("Failed to move card")],
                            store |-> st, res |-> r.res]
                      ELSE [app |-> App_load_board(a, r.store),
                            store |-> r.store, res |-> "Ok"]

(* mutant: the card under the cursor is moved whether it is selected or not *)
App_quick_move_card_Any(a, st, direction) ==
    IF App_selected_card_id(a) = None
    THEN [app |-> a, store |-> st, res |-> "Ok"]
    ELSE LET n == Len(a.board[1].columns)
             i == a.selected_column
             card_id == App_selected_card_id(a)[1]
         IN  IF (direction = "Right" /\ i + 1 >= n) \/ (direction = "Left" /\ i = 0)
             THEN [app |-> a, store |-> st, res |-> "Ok"]
             ELSE LET j == IF direction = "Right" THEN i + 1 ELSE i - 1
                      r == CardService_move_to(st, card_id, a.board[1].columns[j + 1].id)
                  IN  IF r.res # "Ok"
                      THEN [app |-> [a EXCEPT !.error_message = Some("Failed to move card")],
                            store |-> st, res |-> r.res]
                      ELSE [app |-> [App_load_board(a, r.store)
                                        EXCEPT !.selected_column = j,
                                               !.selected_card =
                                                   IndexShownIn(r.store[1], j, card_id),
                                               !.card_selected = TRUE],
                            store |-> r.store, res |-> "Ok"]

App_quick_move_card(a, st, direction) ==
    IF ~a.card_selected \/ App_selected_card_id(a) = None
    THEN [app |-> a, store |-> st, res |-> "Ok"]
    ELSE LET n == Len(a.board[1].columns)
             i == a.selected_column
             card_id == App_selected_card_id(a)[1]
         IN  IF (direction = "Right" /\ i + 1 >= n) \/ (direction = "Left" /\ i = 0)
             THEN [app |-> a, store |-> st, res |-> "Ok"]
             ELSE LET j == IF direction = "Right" THEN i + 1 ELSE i - 1
                      r == CardService_move_to(st, card_id, a.board[1].columns[j + 1].id)
                  IN  IF r.res # "Ok"
                      THEN [app |-> [a EXCEPT !.error_message = Some("Failed to move card")],
                            store |-> st, res |-> r.res]
                      ELSE [app |-> [App_load_board(a, r.store)
                                        EXCEPT !.selected_column = j,
                                               !.selected_card =
                                                   IndexShownIn(r.store[1], j, card_id)],
                            store |-> r.store, res |-> "Ok"]

(* open_card_detail, called by handle_board_input on 'd': from a selected   *)
(* card the Board becomes the detail of that card, else nothing happens     *)
App_open_card_detail(a) ==
    IF a.card_selected /\ App_selected_card_id(a) # None
    THEN [a EXCEPT !.state = "CardDetail"]
    ELSE a

(* deselect_card, called by handle_board_input on Esc with a selected card: *)
(* no card is selected and the focus is on the columns again                *)
App_deselect_card(a) ==
    [a EXCEPT !.card_selected = FALSE, !.focus = "Columns", !.selected_card = None]

(* handle_board_input (src/cli/tui/mod.rs 110-162): one key in the Board    *)
(* state.  With a selected card Left/Right move the card to the adjacent    *)
(* column (the result is dropped) and Esc deselects it; 'd' opens the       *)
(* detail; 'm' opens the move dialog of the card under the cursor unless    *)
(* the card is selected; 'q' does nothing here.                             *)
handle_board_input(a, st, key) ==
    CASE key.code = "Left" \/ key = Char("h") ->
            IF a.card_selected THEN App_quick_move_card(a, st, "Left")
            ELSE [app |-> App_move_left(a), store |-> st]
      [] key.code = "Right" \/ key = Char("l") ->
            IF a.card_selected THEN App_quick_move_card(a, st, "Right")
            ELSE [app |-> App_move_right(a), store |-> st]
      [] key.code = "Up" \/ key = Char("k") -> [app |-> App_move_up(a), store |-> st]
      [] key.code = "Down" \/ key = Char("j") -> [app |-> App_move_down(a), store |-> st]
      [] key.code = "Enter" ->
            [app |-> IF a.focus = "Cards" THEN App_enter_card_detail(a)
                     ELSE App_enter_cards(a),
             store |-> st]
      [] key.code = "Esc" ->
            [app |-> IF a.card_selected THEN App_deselect_card(a)
                     ELSE App_exit_cards(a),
             store |-> st]
      [] key = Char("c") -> [app |-> App_start_create_card(a), store |-> st]
      [] key = Char("d") -> [app |-> App_open_card_detail(a), store |-> st]
      [] key = Char("m") ->
            [app |-> IF App_selected_card_id(a) # None /\ ~a.card_selected
                     THEN App_start_move_card(a) ELSE a,
             store |-> st]
      [] key = Char("?") -> [app |-> App_toggle_help(a), store |-> st]
      [] OTHER -> [app |-> a, store |-> st]

(* handle_card_detail_input (mod.rs 164-187): Esc and 'q' go back to the    *)
(* board with no card selected (app.card_selected = false)                  *)
handle_card_detail_input(a, key) ==
    CASE key = Char("e") -> [a EXCEPT !.state = "EditCard"]
      [] key = Char("d") -> [a EXCEPT !.state = "ConfirmDelete"]
      [] key = Char("m") -> App_start_move_card(a)
      [] key.code = "Esc" \/ key = Char("q") ->
            [a EXCEPT !.state = "Board", !.card_selected = FALSE]
      [] key = Char("?") -> App_toggle_help(a)
      [] OTHER -> a

----------------------------------------------------------------------------
(* State machine.  `last` records the call that produced the state: the     *)
(* method, its arguments and what it returned.  nCreates counts the calls   *)
(* of create_card and `returned` collects the ids that create_card and      *)
(* generate_card_id returned; `added` lists the columns add_column was      *)
(* called with, in call order.                                              *)

NoCall ==
    [op |-> "new", card_id |-> None, column |-> None, order |-> 0,
     ok |-> TRUE, panic |-> FALSE]

(* `reply` records the call of a service or of the TUI that produced the    *)
(* state: the operation, its arguments and its result ("Ok" or the error).  *)
(* For toggle_help it counts the consecutive toggles and keeps the view     *)
(* the first of them started from.                                          *)
NoReply ==
    [op |-> "none", res |-> "Ok", card_id |-> None, column |-> None,
     direction |-> "Up", title |-> None, description |-> None,
     assignee |-> None, toggles |-> 0, origin |-> View_default,
     key |-> Key("None"), typed |-> 0]

InitDomain ==
    /\ board = Board_new
    /\ last = NoCall
    /\ nCreates = 0
    /\ returned = {}
    /\ added = <<>>

(* EventHandler (events.rs 13-17) with its producer thread: `thread` is   *)
(* the position of the thread's loop (28-51), `queue` the events in the    *)
(* channel, `receiver` whether the Receiver is alive, `stop` the position  *)
(* of EventHandler::stop (78-82).  Before EventHandler::new there is none. *)
NoEventHandler ==
    [thread |-> "none", queue |-> <<>>, receiver |-> FALSE, stop |-> "idle"]

(* run_interactive_init (init_prompt.rs) between its steps: `pc` is "idle" *)
(* while it is not running, "asking" while one of its prompts waits for the *)
(* user (lines 31-49), "saving" between initialize and the save of the      *)
(* board of the preset (lines 56-59, 63-69), which `board` holds.           *)
NoPrompt == [pc |-> "idle", board |-> None]

(* no board file yet, the TUI as App::new and View::default make it, no    *)
(* key handled yet by run_app (mod.rs 62), no event handler yet, run()      *)
(* not called yet, no prompt waiting                                        *)
Init ==
    /\ InitDomain
    /\ store = None
    /\ reply = NoReply
    /\ view = View_default
    /\ app = App_new
    /\ should_quit = FALSE
    /\ events = NoEventHandler
    /\ started = FALSE
    /\ prompt = NoPrompt

(* The commands of the command line run before the TUI is started: the     *)
(* store has one owner at a time.  The TUI loads the board when it starts.  *)
TuiClosed == ~started /\ prompt = NoPrompt

(* run() has made the App and loaded the board (mod.rs 31-32), and the loop *)
(* of run_app has not returned                                               *)
TuiRunning == started /\ ~should_quit

(* a panic ends the process *)
Running == ~last.panic

ColumnArgs == {None} \cup { Some(c) : c \in ColumnIds }

(* the column_id arguments that resolve to a column of the board: absent    *)
(* (the default column) or present                                          *)
ExistingColumnArgs ==
    { a \in ColumnArgs :
        LET target == IF a = None THEN DefaultColumnId ELSE a[1]
        IN  \E i \in DOMAIN board.columns : board.columns[i].id = target }

CreateCardInto(columnArgs, maxCards) ==
    /\ Running
    /\ board.next_card_number <= maxCards
    /\ \E title \in Titles, description \in Descriptions,
          assignee \in Assignees, column_id \in columnArgs :
         LET r == Board_create_card(board, title, description, assignee, column_id)
         IN  /\ board' = r.board
             /\ last' = [NoCall EXCEPT !.op = "create_card", !.card_id = Some(r.ret),
                                       !.column = column_id]
             /\ nCreates' = nCreates + 1
             /\ returned' = returned \cup {r.ret}
             /\ UNCHANGED <<added, serviceVars, tuiVars, loopVars>>

(* generate_card_id called on its own: the counter advances and the id is  *)
(* returned, no card is made                                                *)
GenerateCardIdUpTo(maxCards) ==
    /\ Running
    /\ board.next_card_number <= maxCards
    /\ LET r == Board_generate_card_id(board)
       IN  /\ board' = r.board
           /\ last' = [NoCall EXCEPT !.op = "generate_card_id", !.card_id = Some(r.id)]
           /\ returned' = returned \cup {r.id}
           /\ UNCHANGED <<nCreates, added, serviceVars, tuiVars, loopVars>>

MoveCardOf(card_ids) ==
    /\ Running
    /\ \E card_id \in card_ids, target \in ColumnIds :
         LET r == Board_move_card(board, card_id, target)
         IN  /\ board' = r.board
             /\ last' = [NoCall EXCEPT !.op = "move_card", !.card_id = Some(card_id),
                                       !.column = Some(target), !.ok = r.ret]
             /\ UNCHANGED <<nCreates, returned, added, serviceVars, tuiVars, loopVars>>

DeleteCardOf(card_ids) ==
    /\ Running
    /\ \E card_id \in card_ids :
         LET r == Board_delete_card(board, card_id)
         IN  /\ board' = r.board
             /\ last' = [NoCall EXCEPT !.op = "delete_card", !.card_id = Some(card_id),
                                       !.ok = r.ret]
             /\ UNCHANGED <<nCreates, returned, added, serviceVars, tuiVars, loopVars>>

AddColumnUpTo(maxColumns) ==
    /\ Running
    /\ Len(added) < maxColumns
    /\ \E id \in AddColumnIds, name \in ColumnNames, order \in Orders :
         /\ board' = Board_add_column(board, id, name, order)
         /\ last' = [NoCall EXCEPT !.op = "add_column", !.column = Some(id),
                                   !.order = order]
         /\ added' = Append(added, [id |-> id, name |-> name, order |-> order])
         /\ UNCHANGED <<nCreates, returned, serviceVars, tuiVars, loopVars>>

RemoveColumn ==
    /\ Running
    /\ \E column_id \in ColumnIds :
         LET r == Board_remove_column(board, column_id)
         IN  /\ board' = r.board
             /\ last' = [NoCall EXCEPT !.op = "remove_column", !.column = Some(column_id),
                                       !.ok = r.ret, !.panic = r.panic]
             /\ UNCHANGED <<nCreates, returned, added, serviceVars, tuiVars, loopVars>>

(* Every public Board operation with every argument: create_card with a     *)
(* column_id that is absent, existing or unknown                            *)
CreateCard == CreateCardInto(ColumnArgs, MaxCards)
MoveCard == MoveCardOf(CardIdInputs(MaxCards))
DeleteCard == DeleteCardOf(CardIdInputs(MaxCards))
AddColumn == AddColumnUpTo(MaxAddColumns)
GenerateCardId == GenerateCardIdUpTo(MaxCards)

Next ==
    \/ CreateCard \/ GenerateCardId \/ MoveCard \/ DeleteCard
    \/ AddColumn \/ RemoveColumn

Spec == Init /\ [][Next]_vars

(* Every public Board operation, cards created into existing columns only *)
CreateCardExisting == CreateCardInto(ExistingColumnArgs, MaxCards)

NextValid ==
    \/ CreateCardExisting \/ GenerateCardId \/ MoveCard \/ DeleteCard
    \/ AddColumn \/ RemoveColumn

SpecValid == Init /\ [][NextValid]_vars

(* create/move/delete on a fresh board, cards created into existing columns *)
CreateFreshCard == CreateCardInto(ExistingColumnArgs, MaxFreshCards)
MoveFreshCard == MoveCardOf(CardIdInputs(MaxFreshCards))
DeleteFreshCard == DeleteCardOf(CardIdInputs(MaxFreshCards))

NextCards == CreateFreshCard \/ MoveFreshCard \/ DeleteFreshCard

SpecCards == Init /\ [][NextCards]_vars

(* cards created into existing columns, columns added and removed *)
CreateColumnCard == CreateCardInto(ExistingColumnArgs, MaxColumnCards)
AddSomeColumn == AddColumnUpTo(MaxColumnAdds)

NextColumns == CreateColumnCard \/ AddSomeColumn \/ RemoveColumn

SpecColumns == Init /\ [][NextColumns]_vars

(* cards created into any column id, on the board or not, and columns      *)
(* removed (the default column too)                                         *)
CreateOrphanCard == CreateCardInto(ColumnArgs, MaxOrphanCards)

NextOrphan == CreateOrphanCard \/ RemoveColumn

SpecOrphan == Init /\ [][NextOrphan]_vars

(* add_column alone on a fresh board *)
AddFreshColumn == AddColumnUpTo(MaxFreshColumns)

NextAddColumn == AddFreshColumn

SpecAddColumn == Init /\ [][NextAddColumn]_vars

(* Manual order: cards created into existing columns of a fresh board,     *)
(* then moved up and down inside a column                                   *)
ColumnMoveCard(card_ids) ==
    /\ Running
    /\ \E i \in DOMAIN board.columns, card_id \in card_ids,
          direction \in {"Up", "Down"} :
         LET r == IF direction = "Up"
                  THEN Column_move_card_up(board.columns[i], card_id)
                  ELSE Column_move_card_down(board.columns[i], card_id)
         IN  /\ board' = [board EXCEPT !.columns[i] = r.column]
             /\ last' = [NoCall EXCEPT
                            !.op = IF direction = "Up" THEN "move_card_up"
                                   ELSE "move_card_down",
                            !.card_id = Some(card_id),
                            !.column = Some(board.columns[i].id), !.ok = r.ret]
             /\ UNCHANGED <<nCreates, returned, added, serviceVars, tuiVars, loopVars>>

CreateReorderCard == CreateCardInto(ExistingColumnArgs, MaxReorderCards)
MoveCardInColumn == ColumnMoveCard(CardIdInputs(MaxReorderCards))

NextReorder == CreateReorderCard \/ MoveCardInColumn

SpecReorder == Init /\ [][NextReorder]_vars

----------------------------------------------------------------------------
(* The services over the board file.  Each action is one call of a public   *)
(* method of BoardService or CardService (or of a command that wraps it):   *)
(* load, change, save.                                                      *)

(* the counter of the stored board is kept at most maxCards + 1 *)
RoomForCard(maxCards) == store # None => store[1].next_card_number <= maxCards

Initialize ==
    LET r == BoardService_initialize(store)
    IN  /\ store' = r.store
        /\ reply' = [NoReply EXCEPT !.op = "initialize", !.res = r.res]
        /\ UNCHANGED <<domainVars, tuiVars, loopVars>>

(* BoardService::save called on its own, with a fresh board or a board     *)
(* without the column in_progress                                           *)
SaveInputs == {Board_new, Board_remove_column(Board_new, "in_progress").board}

SaveBoard ==
    \E b \in SaveInputs :
       LET r == BoardService_save(store, b)
       IN  /\ store' = r.store
           /\ reply' = [NoReply EXCEPT !.op = "save", !.res = r.res]
           /\ UNCHANGED <<domainVars, tuiVars, loopVars>>

(* run_interactive_init, step by step.  It starts by asking whether a board *)
(* exists (line 19); built without the feature `interactive` it only        *)
(* returns an error (lines 98-104).  Then it waits for the answers of the   *)
(* user (lines 31-49).                                                      *)
InteractiveInitStart ==
    /\ prompt.pc = "idle"
    /\ \E interactive \in BOOLEAN :
         /\ prompt' = IF interactive /\ ~JsonBoardRepository_exists(store)
                      THEN [prompt EXCEPT !.pc = "asking"] ELSE prompt
         /\ reply' = [NoReply EXCEPT
                        !.op = "interactive_init",
                        !.res = IF ~interactive THEN "NotEnabled"
                                ELSE IF JsonBoardRepository_exists(store)
                                     THEN "AlreadyInitialized" ELSE "Asking"]
         /\ UNCHANGED <<domainVars, store, tuiVars, should_quit, events, started>>

(* a prompt fails (Esc, Ctrl-C, no terminal): `?` returns the error, the    *)
(* directory is untouched                                                   *)
InteractiveInitCancel ==
    /\ prompt.pc = "asking"
    /\ prompt' = NoPrompt
    /\ reply' = [NoReply EXCEPT !.op = "interactive_init", !.res = "PromptFailed"]
    /\ UNCHANGED <<domainVars, store, tuiVars, should_quit, events, started>>

(* the prompts are answered: initialize, which asks again whether a board  *)
(* exists, writes the default board (lines 53, 56, 63, 78, 83); for Simple  *)
(* and Development the board of the preset is still to be saved             *)
InteractiveInitAnswer ==
    /\ prompt.pc = "asking"
    /\ \E preset \in Presets :
         LET i == BoardService_initialize(store)
         IN  /\ store' = i.store
             /\ prompt' = IF i.res = "Ok" /\ preset \in {"Simple", "Development"}
                          THEN [pc |-> "saving",
                                board |-> Some(run_interactive_init_board(i.board[1],
                                                                          preset))]
                          ELSE NoPrompt
             /\ reply' = [NoReply EXCEPT
                            !.op = "interactive_init",
                            !.res = IF i.res = "Ok" /\ preset \in {"Simple", "Development"}
                                    THEN "Saving" ELSE i.res]
             /\ UNCHANGED <<domainVars, tuiVars, should_quit, events, started>>

(* service.save(&board, base_path) of Simple and Development (lines 59, 69) *)
InteractiveInitSave ==
    /\ prompt.pc = "saving"
    /\ LET r == BoardService_save(store, prompt.board[1])
       IN  /\ store' = r.store
           /\ prompt' = NoPrompt
           /\ reply' = [NoReply EXCEPT !.op = "interactive_init", !.res = r.res]
           /\ UNCHANGED <<domainVars, tuiVars, should_quit, events, started>>

InteractiveInit ==
    \/ InteractiveInitStart \/ InteractiveInitCancel
    \/ InteractiveInitAnswer \/ InteractiveInitSave

DeleteBoard ==
    LET r == BoardService_delete(store)
    IN  /\ store' = r.store
        /\ reply' = [NoReply EXCEPT !.op = "delete_board", !.res = r.res]
        /\ UNCHANGED <<domainVars, tuiVars, loopVars>>

CardCreate(columnArgs, maxCards) ==
    /\ RoomForCard(maxCards)
    /\ \E title \in Titles, description \in Descriptions,
          assignee \in Assignees, column_id \in columnArgs :
         LET r == CardService_create(store, title, description, assignee, column_id)
         IN  /\ store' = r.store
             /\ reply' = [NoReply EXCEPT !.op = "create", !.res = r.res,
                                         !.card_id = r.card_id, !.column = column_id]
             /\ UNCHANGED <<domainVars, tuiVars, loopVars>>

CardMoveTo(card_ids) ==
    \E card_id \in card_ids, column_id \in ColumnIds :
       LET r == CardService_move_to(store, card_id, column_id)
       IN  /\ store' = r.store
           /\ reply' = [NoReply EXCEPT !.op = "move_to", !.res = r.res,
                                       !.card_id = Some(card_id),
                                       !.column = Some(column_id)]
           /\ UNCHANGED <<domainVars, tuiVars, loopVars>>

CardDelete(card_ids) ==
    \E card_id \in card_ids :
       LET r == CardService_delete(store, card_id)
       IN  /\ store' = r.store
           /\ reply' = [NoReply EXCEPT !.op = "delete", !.res = r.res,
                                       !.card_id = Some(card_id)]
           /\ UNCHANGED <<domainVars, tuiVars, loopVars>>

(* `clicky update`: cmd_update turns the flags into the nested options and  *)
(* calls CardService::update; `reply` keeps the options the service got     *)
OptionOf(values) == {None} \cup { Some(v) : v \in values }

CmdUpdate(card_ids) ==
    \E card_id \in card_ids, title \in OptionOf(NewTitles),
       description \in OptionOf(NewTexts), clear_description \in BOOLEAN,
       assignee \in OptionOf(NewTexts), clear_assignee \in BOOLEAN :
       LET desc_update == cmd_update_arg(description, clear_description)
           assignee_update == cmd_update_arg(assignee, clear_assignee)
           r == CardService_update(store, card_id, title, desc_update, assignee_update)
       IN  /\ store' = r.store
           /\ reply' = [NoReply EXCEPT !.op = "update", !.res = r.res,
                                       !.card_id = Some(card_id), !.title = title,
                                       !.description = desc_update,
                                       !.assignee = assignee_update]
           /\ UNCHANGED <<domainVars, tuiVars, loopVars>>

ReorderCard(card_ids) ==
    \E card_id \in card_ids, direction \in {"Up", "Down"} :
       LET r == BoardService_reorder_card_in_column(store, card_id, direction)
       IN  /\ store' = r.store
           /\ reply' = [NoReply EXCEPT !.op = "reorder", !.res = r.res,
                                       !.card_id = Some(card_id),
                                       !.direction = direction]
           /\ UNCHANGED <<domainVars, tuiVars, loopVars>>

(* CardService on every board an init can store: create with a column_id   *)
(* that is absent, existing or unknown, move_to and delete                  *)
CreateAnywhere == CardCreate(ColumnArgs, MaxServiceCards)
MoveToAnywhere == CardMoveTo(CardIdInputs(MaxServiceCards))
DeleteAny == CardDelete(CardIdInputs(MaxServiceCards))

NextCardService ==
    Initialize \/ InteractiveInit \/ CreateAnywhere \/ MoveToAnywhere \/ DeleteAny

SpecCardService == Init /\ [][NextCardService]_vars

(* `clicky update` on the cards of a default board *)
CreateForUpdate == CardCreate({None}, MaxUpdateCards)
UpdateAny == CmdUpdate(CardIdInputs(MaxUpdateCards))

NextUpdate == Initialize \/ CreateForUpdate \/ UpdateAny

SpecUpdate == Init /\ [][NextUpdate]_vars

(* reorder_card_in_column on the cards of a default board *)
CreateForReorder == CardCreate({None, Some("done")}, MaxBoardReorderCards)
ReorderAny == ReorderCard(CardIdInputs(MaxBoardReorderCards))

NextBoardReorder == Initialize \/ CreateForReorder \/ ReorderAny

SpecBoardReorder == Init /\ [][NextBoardReorder]_vars

(* initialize and the interactive init, on a location with and without a    *)
(* board, the stored board empty or with cards                              *)
CreateForInit == CardCreate(ColumnArgs, MaxInitCards)

NextInitialize ==
    Initialize \/ InteractiveInit \/ SaveBoard \/ DeleteBoard \/ CreateForInit

SpecInitialize == Init /\ [][NextInitialize]_vars

----------------------------------------------------------------------------
(* The TUI.  Each action is one key event or one call of a public method    *)
(* of App, with everything the handler does.                                *)

(* View::toggle_help (state.rs 86-93) applied to a View.  The key '?' of    *)
(* the running TUI is App::toggle_help, in the handlers of the keys.        *)
ToggleHelp(maxToggles) ==
    /\ reply.op = "toggle_help" => reply.toggles < maxToggles
    /\ view' = View_toggle_help(view)
    /\ reply' = IF reply.op = "toggle_help"
                THEN [reply EXCEPT !.toggles = @ + 1]
                ELSE [NoReply EXCEPT !.op = "toggle_help", !.toggles = 1,
                                     !.origin = view]
    /\ UNCHANGED <<domainVars, store, app, loopVars>>

(* Help toggled over every view that is not Help itself *)
ViewCardIds == CardIdInputs(MaxViewCards)
ViewColumns == 0..(Len(Board_new.columns) - 1)

ViewInputs ==
    { View_Board(c, Selection_None) : c \in ViewColumns }
    \cup { View_Board(c, Selection_Highlighted(c, i)) :
               c \in ViewColumns, i \in 0..MaxViewCards }
    \cup { View_Board(c, Selection_Selected(id)) : c \in ViewColumns, id \in ViewCardIds }
    \cup { View_CardDetail(id) : id \in ViewCardIds }
    \cup { View_CardForm(FormMode_Create(Board_new.columns[c + 1].id)) : c \in ViewColumns }
    \cup { View_CardForm(FormMode_Edit(id)) : id \in ViewCardIds }
    \cup { View_MoveCard(id, t) : id \in ViewCardIds, t \in ViewColumns }
    \cup { View_ConfirmDelete(id) : id \in ViewCardIds }

InitView ==
    /\ InitDomain
    /\ store = None
    /\ reply = NoReply
    /\ view \in ViewInputs
    /\ app = App_new
    /\ should_quit = FALSE
    /\ events = NoEventHandler
    /\ started = FALSE
    /\ prompt = NoPrompt

ToggleViewHelp == ToggleHelp(MaxToggles)

NextView == ToggleViewHelp

SpecView == InitView /\ [][NextView]_vars

(* run_app (src/cli/tui/mod.rs 64-108): one Input event of the loop.  The  *)
(* key goes to the handler of the state the app is in; no method of app.rs  *)
(* sets the state Help (toggle_help flips show_help).  After the handler    *)
(* has run, 'q' quits when the state is Board.                              *)
run_app_dispatch(a, st, key) ==
    CASE a.state = "Board" -> handle_board_input(a, st, key)
      [] a.state = "CardDetail" ->
            [app |-> handle_card_detail_input(a, key), store |-> st]
      [] a.state \in {"CreateCard", "EditCard"} ->
            handle_create_card_input(a, st, key)
      [] a.state = "ConfirmDelete" -> handle_confirm_delete_input(a, st, key)
      [] a.state = "MoveCard" -> handle_move_card_input(a, st, key)
      [] OTHER ->
            [app |-> IF key.code = "Esc" \/ key = Char("?")
                     THEN App_toggle_help(a) ELSE a,
             store |-> st]

(* mod.rs 95-97, with the app as the handler left it *)
run_app_should_quit(a, key) == a.state = "Board" /\ key = Char("q")

LoadBoard ==
    /\ TuiClosed
    /\ app' = App_load_board(App_new, store)
    /\ started' = TRUE
    /\ reply' = [NoReply EXCEPT !.op = "load_board"]
    /\ UNCHANGED <<domainVars, store, view, should_quit, events, prompt>>

(* The card form: 'c' opens it, the keys go to handle_create_card_input,    *)
(* submit_card is also called on its own                                    *)
StartCreateCard ==
    /\ TuiRunning /\ app.state = "Board"
    /\ app' = App_start_create_card(app)
    /\ reply' = [NoReply EXCEPT !.op = "start_create_card"]
    /\ UNCHANGED <<domainVars, store, view, loopVars>>

FormKeys ==
    { Key(code) : code \in {"Enter", "Esc", "Up", "Down", "Backspace"} }
    \cup { Char(c) : c \in FormChars }

Typed(a) ==
    Len(a.form_data.title) + Len(a.form_data.description) + Len(a.form_data.assignee)

FormKeyOf(keys, maxTyped, maxCards) ==
    /\ TuiRunning /\ app.state \in {"CreateCard", "EditCard"}
    /\ RoomForCard(maxCards)
    /\ \E key \in keys :
         /\ key.code = "Char" => Typed(app) < maxTyped
         /\ LET r == handle_create_card_input(app, store, key)
            IN  /\ app' = r.app
                /\ store' = r.store
                /\ reply' = [NoReply EXCEPT
                               !.op = IF app.input_mode = "Normal" /\ key.code = "Enter"
                                      THEN "submit_card" ELSE "form_key",
                               !.key = key, !.typed = Typed(app)]
                /\ UNCHANGED <<domainVars, view, loopVars>>

FormKey(maxTyped, maxCards) == FormKeyOf(FormKeys, maxTyped, maxCards)

SubmitCard(maxCards) ==
    /\ TuiRunning /\ app.state \in {"CreateCard", "EditCard"}
    /\ RoomForCard(maxCards)
    /\ LET r == App_submit_card(app, store)
       IN  /\ app' = r.app
           /\ store' = r.store
           /\ reply' = [NoReply EXCEPT !.op = "submit_card", !.res = r.res,
                                       !.typed = Typed(app)]
           /\ UNCHANGED <<domainVars, view, loopVars>>

InitBeforeForm == TuiClosed /\ Initialize
TypeInForm == FormKey(MaxTyped, MaxFormCards)
SubmitForm == SubmitCard(MaxFormCards)

NextForm ==
    InitBeforeForm \/ LoadBoard \/ StartCreateCard \/ TypeInForm \/ SubmitForm

SpecForm == Init /\ [][NextForm]_vars

(* The card form with the command characters typed as well *)
TypeAnyChar ==
    FormKeyOf(FormKeys \cup { Char(c) : c \in CommandChars },
              MaxTypingChars, MaxTypingCards)

NextTyping == InitBeforeForm \/ LoadBoard \/ StartCreateCard \/ TypeAnyChar

SpecTyping == Init /\ [][NextTyping]_vars

(* run_app hands every key to the handler of app.state, whether the app    *)
(* has a board or not.                                                      *)
BoardKey(keys) ==
    /\ TuiRunning /\ app.state = "Board"
    /\ \E key \in keys :
         LET r == handle_board_input(app, store, key)
         IN  /\ app' = r.app
             /\ store' = r.store
             /\ reply' = [NoReply EXCEPT !.op = "board_key", !.key = key,
                                         !.card_id = App_selected_card_id(app)]
             /\ UNCHANGED <<domainVars, view, loopVars>>

CardDetailKey(keys) ==
    /\ TuiRunning /\ app.state = "CardDetail"
    /\ \E key \in keys :
         /\ app' = handle_card_detail_input(app, key)
         /\ reply' = [NoReply EXCEPT !.op = "card_detail_key", !.key = key]
         /\ UNCHANGED <<domainVars, store, view, loopVars>>

MoveCardKey ==
    /\ TuiRunning /\ app.state = "MoveCard"
    /\ \E key \in {Key("Left"), Key("Right"), Key("Enter"), Key("Esc")} :
         LET r == handle_move_card_input(app, store, key)
         IN  /\ app' = r.app
             /\ store' = r.store
             /\ reply' = [NoReply EXCEPT !.op = "move_card_key", !.key = key,
                                         !.res = r.res]
             /\ UNCHANGED <<domainVars, view, loopVars>>

ConfirmDeleteKey ==
    /\ TuiRunning /\ app.state = "ConfirmDelete"
    /\ \E key \in {Char("y"), Char("n"), Key("Esc")} :
         LET r == handle_confirm_delete_input(app, store, key)
         IN  /\ app' = r.app
             /\ store' = r.store
             /\ reply' = [NoReply EXCEPT !.op = "confirm_delete_key", !.key = key,
                                         !.res = r.res]
             /\ UNCHANGED <<domainVars, view, loopVars>>

(* app.card_selected is a public field of the App: the tests write it      *)
(* (app_tests.rs 541).  Here it is written for the card under the cursor.   *)
SetCardSelected ==
    /\ TuiRunning /\ app.state = "Board"
    /\ app.focus = "Cards" /\ App_selected_card_id(app) # None
    /\ \E selected \in BOOLEAN :
         /\ app' = [app EXCEPT !.card_selected = selected]
         /\ reply' = [NoReply EXCEPT !.op = "set_card_selected"]
         /\ UNCHANGED <<domainVars, store, view, loopVars>>

(* quick_move_card_left / quick_move_card_right called on their own,        *)
(* whether a card is selected or not                                        *)
QuickMoveCard ==
    /\ TuiRunning /\ app.state = "Board"
    /\ \E direction \in {"Left", "Right"} :
         LET r == App_quick_move_card(app, store, direction)
         IN  /\ app' = r.app
             /\ store' = r.store
             /\ reply' = [NoReply EXCEPT !.op = "quick_move", !.res = r.res,
                                         !.direction = direction]
             /\ UNCHANGED <<domainVars, view, loopVars>>

(* Cards created on the board of any init, then the Board state of the TUI *)
(* with its cursor, the selected card and the quick move                    *)
InitBeforeTui == ~started /\ InteractiveInit
CreateBeforeTui ==
    TuiClosed /\ CardCreate({None, Some("in_progress"), Some("done")}, MaxQuickCards)

QuickKeys == {Key("Left"), Key("Right"), Key("Up"), Key("Down"), Key("Esc")}

NextQuickMove ==
    \/ InitBeforeTui \/ CreateBeforeTui \/ LoadBoard
    \/ BoardKey(QuickKeys) \/ SetCardSelected \/ QuickMoveCard

SpecQuickMove == Init /\ [][NextQuickMove]_vars

(* Cards created on the board of any init, then the cursor on the board,   *)
(* the card detail, the move dialog and the delete confirmation            *)
CursorKeys ==
    {Key("Left"), Key("Right"), Key("Up"), Key("Down"), Key("Enter"), Key("Esc")}

CreateBeforeDialog ==
    TuiClosed /\ CardCreate({None, Some("in_progress"), Some("done")}, MaxDialogCards)

NextDialog ==
    \/ InitBeforeTui \/ CreateBeforeDialog \/ LoadBoard
    \/ BoardKey(CursorKeys \cup {Char("m")})
    \/ CardDetailKey({Char("d"), Char("m"), Key("Esc")})
    \/ MoveCardKey \/ ConfirmDeleteKey

SpecDialog == Init /\ [][NextDialog]_vars

(* Every screen of the TUI on the default board: the cursor, the card      *)
(* detail, the create and the edit form, the move dialog and the delete    *)
(* confirmation.  The board file can be removed by another process while   *)
(* the TUI shows the board.                                                 *)
CreateBeforeApp == TuiClosed /\ CardCreate({None}, MaxAppCards)

BoardFileRemoved == app.board # None /\ DeleteBoard

NextApp ==
    \/ InitBeforeForm \/ CreateBeforeApp \/ LoadBoard \/ BoardFileRemoved
    \/ BoardKey({Key("Up"), Key("Enter"), Key("Esc"), Char("c")})
    \/ CardDetailKey({Char("e"), Char("d"), Char("m"), Key("Esc")})
    \/ MoveCardKey \/ ConfirmDeleteKey
    \/ FormKeyOf(FormKeys, MaxAppTyped, MaxAppCards + 1)

SpecApp == Init /\ [][NextApp]_vars

(* Every action of the TUI that writes the board: the submit of the card   *)
(* form, the confirm of the move dialog and of the delete confirmation, and *)
(* the quick move of the selected card.  The cards are those of the form.   *)
NextCache ==
    \/ InitBeforeForm \/ LoadBoard
    \/ BoardKey({Key("Up"), Key("Enter"), Char("c")})
    \/ CardDetailKey({Char("d"), Char("m")})
    \/ MoveCardKey \/ ConfirmDeleteKey
    \/ FormKeyOf({Key("Enter"), Char("a")}, MaxCacheTyped, MaxCacheCards)
    \/ SetCardSelected \/ QuickMoveCard

SpecCache == Init /\ [][NextCache]_vars

----------------------------------------------------------------------------
(* EventHandler (src/cli/tui/events.rs): the producer thread, the channel   *)
(* and stop.  Time is not modelled: whether poll times out and whether the  *)
(* tick rate has elapsed is any of the two.                                 *)

(* Sender::send: Err when the Receiver is dropped, else the event is queued *)
Sender_send(e, event) ==
    IF e.receiver
    THEN [e EXCEPT !.queue = Append(@, event)]
    ELSE [e EXCEPT !.thread = "done"]

(* EventHandler::new: the channel, and the thread at the top of its loop *)
EventHandler_new ==
    [thread |-> "poll", queue |-> <<>>, receiver |-> TRUE, stop |-> "idle"]

EventHandlerNew ==
    /\ events = NoEventHandler
    /\ events' = EventHandler_new
    /\ UNCHANGED <<domainVars, serviceVars, tuiVars, should_quit, started, prompt>>

(* lines 29-43 of the loop: poll times out (or fails, or the event is no    *)
(* key), a key is read and sent, or event::read fails and the loop breaks   *)
ProducerPollUpTo(maxQueue) ==
    /\ events.thread = "poll"
    /\ \/ events' = [events EXCEPT !.thread = "tick"]
       \/ /\ events.receiver => Len(events.queue) < maxQueue
          /\ events' = Sender_send([events EXCEPT !.thread = "tick"], "Input")
       \/ events' = [events EXCEPT !.thread = "done"]
    /\ UNCHANGED <<domainVars, serviceVars, tuiVars, should_quit, started, prompt>>

(* lines 45-50: the tick rate has not elapsed, or Tick is sent *)
ProducerTickUpTo(maxQueue) ==
    /\ events.thread = "tick"
    /\ \/ events' = [events EXCEPT !.thread = "poll"]
       \/ /\ events.receiver => Len(events.queue) < maxQueue
          /\ events' = Sender_send([events EXCEPT !.thread = "poll"], "Tick")
    /\ UNCHANGED <<domainVars, serviceVars, tuiVars, should_quit, started, prompt>>

ProducerPoll == ProducerPollUpTo(MaxQueue)
ProducerTick == ProducerTickUpTo(MaxQueue)

(* try_next called on its own takes the first event of the channel *)
TryNext ==
    /\ events.receiver /\ events.stop = "idle"
    /\ events.queue # <<>>
    /\ events' = [events EXCEPT !.queue = Tail(@)]
    /\ UNCHANGED <<domainVars, serviceVars, tuiVars, should_quit, started, prompt>>

(* stop, line 79: the handle is taken and join begins.  `self`, with its    *)
(* Sender and Receiver, lives until stop returns.                           *)
StopCall ==
    /\ events.thread # "none" /\ events.stop = "idle"
    /\ events' = [events EXCEPT !.stop = "joining"]
    /\ UNCHANGED <<domainVars, serviceVars, tuiVars, should_quit, started, prompt>>

(* stop, lines 80-82: join returns once the thread has exited; then `self`  *)
(* is dropped, and the Receiver with it                                     *)
StopJoin ==
    /\ events.stop = "joining" /\ events.thread = "done"
    /\ events' = [events EXCEPT !.stop = "returned", !.receiver = FALSE]
    /\ UNCHANGED <<domainVars, serviceVars, tuiVars, should_quit, started, prompt>>

(* run (mod.rs 31-38) and the loop of run_app: once the board is loaded     *)
(* the EventHandler is made; every iteration takes one event of the channel *)
(* with try_next.  A key is sent to the handler of the state the app is in, *)
(* until 'q' quits; a Tick is taken and dropped; nothing happens while the  *)
(* channel is empty.  The keys are those of the cursor, the card detail,    *)
(* the move dialog, the delete confirmation and the help.                   *)
RunAppKeys ==
    { Key(code) : code \in {"Left", "Right", "Up", "Down", "Enter", "Esc"} }
    \cup { Char(c) : c \in {"q", "d", "m", "y", "?"} }

CreateBeforeRunApp ==
    TuiClosed /\ ~should_quit /\ CardCreate({None}, MaxRunCards)

RunEventHandlerNew == started /\ EventHandlerNew

RunProducerPoll == ProducerPollUpTo(MaxRunQueue)
RunProducerTick == ProducerTickUpTo(MaxRunQueue)

RunAppKey(keys) ==
    /\ TuiRunning
    /\ events.receiver /\ events.stop = "idle"
    /\ events.queue # <<>> /\ Head(events.queue) = "Input"
    /\ app.state \in {"CreateCard", "EditCard"} => RoomForCard(MaxRunCards + 1)
    /\ \E key \in keys :
         /\ (key.code = "Char" /\ app.state \in {"CreateCard", "EditCard"})
                => Typed(app) < MaxRunTyped
         /\ LET r == run_app_dispatch(app, store, key)
            IN  /\ app' = r.app
                /\ store' = r.store
                /\ should_quit' = run_app_should_quit(r.app, key)
                /\ events' = [events EXCEPT !.queue = Tail(@)]
                /\ reply' = [NoReply EXCEPT !.op = "run_app_key", !.key = key]
                /\ UNCHANGED <<domainVars, view, started, prompt>>

RunAppTick ==
    /\ TuiRunning
    /\ events.receiver /\ events.stop = "idle"
    /\ events.queue # <<>> /\ Head(events.queue) = "Tick"
    /\ events' = [events EXCEPT !.queue = Tail(@)]
    /\ reply' = [NoReply EXCEPT !.op = "run_app_tick"]
    /\ UNCHANGED <<domainVars, store, tuiVars, should_quit, started, prompt>>

NextRunApp ==
    \/ InitBeforeForm \/ CreateBeforeRunApp \/ LoadBoard \/ RunEventHandlerNew
    \/ RunProducerPoll \/ RunProducerTick \/ RunAppKey(RunAppKeys) \/ RunAppTick

SpecRunApp == Init /\ [][NextRunApp]_vars

NextEvents ==
    EventHandlerNew \/ ProducerPoll \/ ProducerTick \/ TryNext \/ StopCall
    \/ StopJoin

(* The thread is scheduled as long as it runs, and join returns once the    *)
(* thread has exited.                                                       *)
SpecEvents ==
    /\ Init /\ [][NextEvents]_vars
    /\ WF_vars(ProducerPoll) /\ WF_vars(ProducerTick) /\ WF_vars(StopJoin)

----------------------------------------------------------------------------
(* Properties *)

Count(seq, x) == Cardinality({ i \in DOMAIN seq : seq[i] = x })

ColumnsWithId(b, id) == { i \in DOMAIN b.columns : b.columns[i].id = id }

CardExists(b, card_id) == \E k \in DOMAIN b.cards : b.cards[k].id = card_id

ColumnExists(b, column_id) == ColumnsWithId(b, column_id) # {}

(* C1: after every operation of a sequence of create_card (column_id absent *)
(* or existing), move_card and delete_card on a fresh board, every card's   *)
(* column_id is the id of exactly one column, and that column's `cards`     *)
(* sequence contains the card's id exactly once.                            *)
C1_CardInExactlyOneColumn ==
    \A k \in DOMAIN board.cards :
        LET card == board.cards[k]
        IN  /\ Cardinality(ColumnsWithId(board, card.column_id)) = 1
            /\ \A i \in ColumnsWithId(board, card.column_id) :
                   Count(board.columns[i].cards, card.id) = 1

(* a card was deleted after a move, and a card outside the default column   *)
(* is left                                                                  *)
C1_Witness ==
    /\ last.op = "delete_card" /\ last.ok
    /\ Len(board.cards) >= 2
    /\ \E k \in DOMAIN board.cards : board.cards[k].column_id # DefaultColumnId

(* C2: in every state reachable through create_card into an existing        *)
(* column, move_card, delete_card, add_column and remove_column, each       *)
(* column's `cards` has no duplicates and holds only ids of existing cards  *)
(* whose column_id is that column's id, and no card id is listed by more    *)
(* than one column.                                                         *)
C2_ColumnsListOwnCardsOnce ==
    /\ \A i \in DOMAIN board.columns :
         \A p \in DOMAIN board.columns[i].cards :
            LET id == board.columns[i].cards[p]
            IN  /\ Count(board.columns[i].cards, id) = 1
                /\ \E k \in DOMAIN board.cards :
                      /\ board.cards[k].id = id
                      /\ board.cards[k].column_id = board.columns[i].id
    /\ \A i, j \in DOMAIN board.columns :
         i # j => ~\E p \in DOMAIN board.columns[i].cards :
                     Contains(board.columns[j].cards, board.columns[i].cards[p])

(* C3: next_card_number starts at 1, never decreases under any Board        *)
(* operation and is N+1 after N calls of create_card; create_card never     *)
(* returns an id it returned before, and card ids are unique in Board.cards *)
C3_CounterAndIds ==
    /\ board.next_card_number = 1
    /\ [](/\ board.next_card_number = nCreates + 1
          /\ \A k, l \in DOMAIN board.cards :
                board.cards[k].id = board.cards[l].id => k = l)
    /\ [][/\ board'.next_card_number >= board.next_card_number
          /\ last'.op = "create_card" => last'.card_id[1] \notin returned]_vars

(* a card was created after an earlier card had been deleted *)
C3_Witness ==
    /\ last.op = "create_card"
    /\ nCreates >= 3
    /\ Len(board.cards) < nCreates

Without(seq, x) == SelectSeq(seq, LAMBDA e : e # x)

(* C4: move_card returns false and leaves the whole board unchanged when    *)
(* the target column does not exist or the card does not exist.             *)
C4_FailedMoveChangesNothing ==
    [][ ( /\ last'.op = "move_card"
          /\ \/ ~ColumnExists(board, last'.column[1])
             \/ ~CardExists(board, last'.card_id[1]) )
        => ( ~last'.ok /\ board' = board ) ]_vars

(* move_card of an existing card to an unknown column has returned false *)
C4_Witness ==
    /\ last.op = "move_card" /\ ~last.ok
    /\ CardExists(board, last.card_id[1])
    /\ ~ColumnExists(board, last.column[1])
    /\ Len(board.cards) >= 2

(* C5: when move_card succeeds, the id is gone from the source column's     *)
(* sequence, is the last element of the target column's sequence, the       *)
(* card's column_id is the target, and the relative order of all other ids  *)
(* in every column is unchanged (also when the target is the card's own     *)
(* column).                                                                 *)
C5_MoveAppendsToTarget ==
    [][ ( last'.op = "move_card" /\ last'.ok )
        => LET id == last'.card_id[1]
               target == last'.column[1]
           IN  /\ Len(board'.columns) = Len(board.columns)
               /\ \A i \in DOMAIN board.columns :
                    /\ board'.columns[i].id = board.columns[i].id
                    /\ Without(board'.columns[i].cards, id)
                          = Without(board.columns[i].cards, id)
                    /\ board.columns[i].id # target
                          => ~Contains(board'.columns[i].cards, id)
               /\ \E i \in ColumnsWithId(board', target) :
                    LET cs == board'.columns[i].cards
                    IN  cs # <<>> /\ cs[Len(cs)] = id /\ Count(cs, id) = 1
               /\ Len(board'.cards) = Len(board.cards)
               /\ \A k \in DOMAIN board.cards :
                    board'.cards[k] =
                       IF board.cards[k].id = id
                       THEN [board.cards[k] EXCEPT !.column_id = target]
                       ELSE board.cards[k] ]_vars

(* C6: delete_card of an existing card returns true, removes the card from  *)
(* Board.cards and its id from the owning column's sequence and leaves      *)
(* every other card, every other column and next_card_number unchanged; of  *)
(* an unknown id it returns false and changes nothing.                      *)
C6_DeleteRemovesCardAndListing ==
    [][ last'.op = "delete_card"
        => LET id == last'.card_id[1]
           IN  IF CardExists(board, id)
               THEN LET owner == board.cards[FindCard(board.cards, id)].column_id
                    IN  /\ last'.ok
                        /\ board'.cards = SelectSeq(board.cards, LAMBDA c : c.id # id)
                        /\ board'.next_card_number = board.next_card_number
                        /\ Len(board'.columns) = Len(board.columns)
                        /\ \A i \in DOMAIN board.columns :
                             board'.columns[i] =
                                IF board.columns[i].id = owner
                                THEN [board.columns[i] EXCEPT !.cards = Without(@, id)]
                                ELSE board.columns[i]
               ELSE ~last'.ok /\ board' = board ]_vars

(* C7: remove_column returns false and leaves the board unchanged when the  *)
(* board has exactly one column or the column id is unknown; the board      *)
(* always has at least one column.                                          *)
C7_LastColumnStays ==
    /\ [](Len(board.columns) >= 1)
    /\ [][ ( /\ last'.op = "remove_column"
             /\ \/ Len(board.columns) = 1
                \/ ~ColumnExists(board, last'.column[1]) )
           => ( ~last'.ok /\ ~last'.panic /\ board' = board ) ]_vars

(* remove_column of the only column, which holds a card, has returned false *)
C7_Witness ==
    /\ last.op = "remove_column" /\ ~last.ok
    /\ Len(board.columns) = 1
    /\ ColumnExists(board, last.column[1])
    /\ board.columns[1].cards # <<>>

(* C8: when remove_column succeeds, the column is gone and the remaining    *)
(* columns keep their relative order (the columns are those before, without *)
(* the removed one), no card is deleted, and every card of the removed      *)
(* column's sequence has the column_id of the first other column in         *)
(* sequence position and is appended to that column's sequence behind its   *)
(* previous members, in the removed column's order.                         *)
C8_RemoveColumnRelocates ==
    [][ ( last'.op = "remove_column" /\ last'.ok )
        => LET id == last'.column[1]
               pos == FindColumn(board.columns, id)
               rest == RemoveAt(board.columns, pos)
               moved == board.columns[pos].cards
           IN  /\ Len(board'.columns) = Len(rest)
               /\ \A i \in DOMAIN rest :
                    /\ board'.columns[i].id = rest[i].id
                    /\ board'.columns[i].name = rest[i].name
                    /\ board'.columns[i].order = rest[i].order
               /\ Len(board'.cards) = Len(board.cards)
               /\ \A k \in DOMAIN board.cards :
                    /\ board'.cards[k].id = board.cards[k].id
                    /\ Contains(moved, board.cards[k].id)
                          => board'.cards[k].column_id = rest[1].id
               /\ board'.columns[1].cards = rest[1].cards \o moved ]_vars

(* C9: column ids are unique within a board in every state reachable by     *)
(* add_column and remove_column, add_column of an existing id included.     *)
C9_ColumnIdsUnique ==
    \A i, j \in DOMAIN board.columns :
        board.columns[i].id = board.columns[j].id => i = j

(* the columns in the order of their insertion: the three of Board::new,    *)
(* then those of the add_column calls                                       *)
ColumnKey(c) == [id |-> c.id, name |-> c.name, order |-> c.order]

Inserted == [i \in DOMAIN Board_new.columns |-> ColumnKey(Board_new.columns[i])] \o added

WithOrder(seq, order) == SelectSeq(seq, LAMBDA c : c.order = order)

(* C10: after any sequence of add_column calls on a fresh board the columns *)
(* are sorted by non-decreasing `order`, and columns of equal `order` stand *)
(* in the order of their insertion.                                         *)
C10_SortedAndStable ==
    /\ \A i, j \in DOMAIN board.columns :
          i < j => board.columns[i].order <= board.columns[j].order
    /\ \A o \in { Inserted[i].order : i \in DOMAIN Inserted } :
          WithOrder([i \in DOMAIN board.columns |-> ColumnKey(board.columns[i])], o)
             = WithOrder(Inserted, o)

(* two columns of different ids were added with the `order` of one of the   *)
(* columns of Board::new                                                    *)
C10_Witness ==
    /\ Len(added) >= 2
    /\ added[1].order = added[2].order
    /\ added[1].id # added[2].id
    /\ \E i \in DOMAIN Board_new.columns : Board_new.columns[i].order = added[1].order

(* C11: Column.move_card_up(id) / move_card_down(id) swap the id with its   *)
(* upper / lower neighbour in the column's sequence and return true; when   *)
(* the id is already first (up) or last (down), or is absent, they return   *)
(* false and the sequence is unchanged.  In every case the set of ids in    *)
(* the column, every other column and every card's column_id are unchanged. *)
C11_ReorderSwapsNeighbours ==
    [][ last'.op \in {"move_card_up", "move_card_down"}
        => LET id == last'.card_id[1]
               ci == FindColumn(board.columns, last'.column[1])
               old == board.columns[ci].cards
               new == board'.columns[ci].cards
               pos == Position(old, id)
               to == IF last'.op = "move_card_up" THEN pos - 1 ELSE pos + 1
           IN  /\ IF pos # 0 /\ to \in DOMAIN old
                  THEN /\ last'.ok
                       /\ Len(new) = Len(old)
                       /\ new[to] = id /\ new[pos] = old[to]
                       /\ \A k \in DOMAIN old \ {pos, to} : new[k] = old[k]
                  ELSE ~last'.ok /\ new = old
               /\ { new[k] : k \in DOMAIN new } = { old[k] : k \in DOMAIN old }
               /\ Len(board'.columns) = Len(board.columns)
               /\ \A i \in DOMAIN board.columns \ {ci} :
                      board'.columns[i] = board.columns[i]
               /\ board'.columns[ci].id = board.columns[ci].id
               /\ board'.cards = board.cards ]_vars

(* the first card of a column of two has been moved down to the end while  *)
(* another column holds a card                                              *)
C11_Witness ==
    /\ last.op = "move_card_down" /\ last.ok
    /\ \E i \in DOMAIN board.columns :
          /\ board.columns[i].id = last.column[1]
          /\ Len(board.columns[i].cards) = 2
          /\ board.columns[i].cards[2] = last.card_id[1]
    /\ \E k \in DOMAIN board.cards : board.cards[k].column_id # last.column[1]

(* C12: for every persisted board and every column_id argument (absent or   *)
(* present), CardService.create either returns ColumnNotFound with the      *)
(* persisted board unchanged, or persists exactly one new card whose        *)
(* column_id names an existing column whose `cards` sequence lists it.      *)
C12_CreateValidatesColumn ==
    [][ ( reply'.op = "create" /\ store # None )
        => \/ reply'.res = "ColumnNotFound" /\ store' = store
           \/ /\ reply'.res = "Ok"
              /\ LET b == store[1]
                     nb == store'[1]
                     n == Len(nb.cards)
                 IN  /\ n = Len(b.cards) + 1
                     /\ SubSeq(nb.cards, 1, n - 1) = b.cards
                     /\ nb.cards[n].id = reply'.card_id[1]
                     /\ \E i \in DOMAIN nb.columns :
                           /\ nb.columns[i].id = nb.cards[n].column_id
                           /\ Contains(nb.columns[i].cards, nb.cards[n].id) ]_vars

(* C13: CardService.move_to returns CardNotFound when the card does not     *)
(* exist (also when the column does not exist either) and ColumnNotFound    *)
(* when the card exists but the column does not; in both cases the          *)
(* persisted board is unchanged.                                            *)
C13_MoveToErrors ==
    [][ ( reply'.op = "move_to" /\ store # None )
        => LET b == store[1]
               id == reply'.card_id[1]
               column_id == reply'.column[1]
           IN  /\ ~CardExists(b, id)
                     => reply'.res = "CardNotFound" /\ store' = store
               /\ ( CardExists(b, id) /\ ~ColumnExists(b, column_id) )
                     => reply'.res = "ColumnNotFound" /\ store' = store ]_vars

(* move_to of an unknown card to an unknown column of a board that holds    *)
(* cards has returned CardNotFound                                          *)
C13_Witness ==
    /\ reply.op = "move_to" /\ reply.res = "CardNotFound"
    /\ store # None
    /\ store[1].cards # <<>>
    /\ ~CardExists(store[1], reply.card_id[1])
    /\ ~ColumnExists(store[1], reply.column[1])

(* C14: CardService.update changes only the fields it is given: an omitted  *)
(* title/description/assignee (outer None) keeps its persisted value,       *)
(* Some(None) clears description/assignee, Some(Some(v)) sets it to v; the  *)
(* card's id and column_id, every other card, every column's sequence and   *)
(* next_card_number are unchanged; on an unknown card_id it returns         *)
(* CardNotFound and persists nothing.                                       *)
C14_UpdateChangesGivenFields ==
    [][ ( reply'.op = "update" /\ store # None )
        => LET b == store[1]
               pos == FindCard(b.cards, reply'.card_id[1])
           IN  IF pos = 0
               THEN reply'.res = "CardNotFound" /\ store' = store
               ELSE LET nb == store'[1]
                        old == b.cards[pos]
                        new == nb.cards[pos]
                    IN  /\ reply'.res = "Ok"
                        /\ nb.columns = b.columns
                        /\ nb.next_card_number = b.next_card_number
                        /\ Len(nb.cards) = Len(b.cards)
                        /\ \A k \in DOMAIN b.cards \ {pos} : nb.cards[k] = b.cards[k]
                        /\ new.id = old.id /\ new.column_id = old.column_id
                        /\ reply'.title = None => new.title = old.title
                        /\ \A v \in NewTitles :
                              reply'.title = Some(v) => new.title = v
                        /\ reply'.description = None
                              => new.description = old.description
                        /\ reply'.description = Some(None) => new.description = None
                        /\ \A v \in NewTexts :
                              reply'.description = Some(Some(v))
                                 => new.description = Some(v)
                        /\ reply'.assignee = None => new.assignee = old.assignee
                        /\ reply'.assignee = Some(None) => new.assignee = None
                        /\ \A v \in NewTexts :
                              reply'.assignee = Some(Some(v))
                                 => new.assignee = Some(v) ]_vars

(* an update that omitted the title, cleared the description and set the    *)
(* assignee: the card keeps the title an earlier update gave it, and the    *)
(* other card keeps its description                                         *)
C14_Witness ==
    /\ reply.op = "update" /\ reply.res = "Ok"
    /\ reply.title = None
    /\ reply.description = Some(None)
    /\ reply.assignee = Some(Some("text"))
    /\ Len(store[1].cards) = 2
    /\ \E k, l \in DOMAIN store[1].cards :
          /\ store[1].cards[k].id = reply.card_id[1]
          /\ store[1].cards[k].title = "Renamed"
          /\ store[1].cards[k].description = None
          /\ store[1].cards[k].assignee = Some("text")
          /\ l # k
          /\ store[1].cards[l].description = Some("text")

(* C15: BoardService.reorder_card_in_column returns an error and leaves the *)
(* persisted board unchanged when the card is already at the top (Up) or    *)
(* bottom (Down) of its column or when no card has that id; when no board   *)
(* exists it returns BoardNotFound.                                         *)
C15_RejectedReorderChangesNothing ==
    [][ reply'.op = "reorder"
        => IF store = None
           THEN reply'.res = "BoardNotFound" /\ store' = store
           ELSE LET b == store[1]
                    id == reply'.card_id[1]
                    pos == FindCard(b.cards, id)
                    ci == IF pos = 0 THEN 0
                          ELSE FindColumn(b.columns, b.cards[pos].column_id)
                    atEdge ==
                       /\ ci # 0
                       /\ b.columns[ci].cards # <<>>
                       /\ IF reply'.direction = "Up"
                          THEN b.columns[ci].cards[1] = id
                          ELSE b.columns[ci].cards[Len(b.columns[ci].cards)] = id
                IN  ( pos = 0 \/ atEdge )
                       => reply'.res \notin {"Ok", "BoardNotFound"} /\ store' = store ]_vars

(* the last card of a column of at least two has been refused to move down  *)
C15_Witness ==
    /\ reply.op = "reorder" /\ reply.res # "Ok" /\ reply.direction = "Down"
    /\ store # None
    /\ \E i \in DOMAIN store[1].columns :
          LET cs == store[1].columns[i].cards
          IN  Len(cs) >= 2 /\ cs[Len(cs)] = reply.card_id[1]

(* C16: BoardService.initialize at a location where a board already exists  *)
(* fails with AlreadyInitialized and leaves the stored board (its cards,    *)
(* columns and next_card_number) unchanged; it succeeds, storing a fresh    *)
(* board with the three default columns and no cards, only when no board    *)
(* exists there.                                                            *)
C16_InitializeOnce ==
    [][ reply'.op = "initialize"
        => IF store # None
           THEN reply'.res = "AlreadyInitialized" /\ store' = store
           ELSE /\ reply'.res = "Ok"
                /\ store' # None
                /\ store'[1].cards = <<>>
                /\ store'[1].next_card_number = 1
                /\ [i \in DOMAIN store'[1].columns |-> store'[1].columns[i].id]
                      = <<"todo", "in_progress", "done">>
                /\ \A i \in DOMAIN store'[1].columns :
                      store'[1].columns[i].cards = <<>> ]_vars

(* initialize has been refused at a location whose board holds cards and    *)
(* has other columns than the default ones                                  *)
C16_Witness ==
    /\ reply.op = "initialize" /\ reply.res = "AlreadyInitialized"
    /\ store # None
    /\ store[1].cards # <<>>
    /\ Len(store[1].columns) # 3

(* C17: toggling help from any non-Help view V yields Help{previous: V},    *)
(* and toggling again yields exactly V (same variant, same selected_column, *)
(* selection, card_id, target column); hence Help never wraps another Help  *)
(* and any even number of consecutive toggles is the identity on the view.  *)
C17_HelpTogglesBack ==
    /\ [](view.tag = "Help" => view.previous.tag # "Help")
    /\ [](reply.op = "toggle_help"
            => IF reply.toggles % 2 = 0
               THEN view = reply.origin
               ELSE reply.origin.tag # "Help"
                       => view = [tag |-> "Help", previous |-> reply.origin])
    /\ [][ ( reply'.op = "toggle_help" /\ view.tag # "Help" )
             => view' = [tag |-> "Help", previous |-> view] ]_vars

(* help has been opened and closed twice over the dialog that moves a card  *)
(* to the second column                                                     *)
C17_Witness ==
    /\ reply.op = "toggle_help" /\ reply.toggles = 4
    /\ view.tag = "MoveCard"
    /\ view.target_column = 1

(* the columns whose `cards` sequence lists the card *)
ListedIn(b, card_id) ==
    { i \in DOMAIN b.columns : Contains(b.columns[i].cards, card_id) }

(* C18: in Board view with selection = Selected{id} and selected_column =   *)
(* i, quick-move-right with i < columns.len()-1 moves card id to column     *)
(* i+1 in the persisted board and yields Board{selected_column: i+1,        *)
(* selection: Selected{id}}; quick-move-left with i > 0 does the same       *)
(* towards i-1; at the respective edge column neither the board nor         *)
(* selected_column changes.                                                 *)
C18_QuickMoveFollowsCard ==
    [][ ( /\ \/ reply'.op = "quick_move"
             \/ /\ reply'.op = "board_key"
                /\ reply'.key \in {Key("Left"), Key("Right")}
          /\ app.state = "Board" /\ app.card_selected
          /\ App_selected_card_id(app) # None
          /\ store # None )
        => LET b == store[1]
               id == App_selected_card_id(app)[1]
               i == app.selected_column
               right == IF reply'.op = "quick_move" THEN reply'.direction = "Right"
                        ELSE reply'.key = Key("Right")
               j == IF right THEN i + 1 ELSE i - 1
           IN  IF (right /\ i < Len(b.columns) - 1) \/ (~right /\ i > 0)
               THEN /\ app'.state = "Board"
                    /\ app'.selected_column = j
                    /\ app'.card_selected
                    /\ App_selected_card_id(app') = Some(id)
                    /\ store' # None
                    /\ ListedIn(store'[1], id) = {j + 1}
                    /\ Len(store'[1].cards) = Len(b.cards)
                    /\ \A k \in DOMAIN b.cards :
                          store'[1].cards[k] =
                             IF b.cards[k].id = id
                             THEN [b.cards[k] EXCEPT !.column_id = b.columns[j + 1].id]
                             ELSE b.cards[k]
               ELSE store' = store /\ app' = app ]_vars

(* the second of the cards of a column was selected and has been moved     *)
(* left out of the third column, next to a card that was there before       *)
C18_Witness ==
    /\ reply.op = "quick_move" /\ reply.direction = "Left" /\ reply.res = "Ok"
    /\ app.state = "Board" /\ app.card_selected
    /\ app.selected_column = 1
    /\ store # None
    /\ Len(store[1].columns) >= 3
    /\ App_selected_card_id(app) # None
    /\ ListedIn(store[1], App_selected_card_id(app)[1]) = {2}
    /\ Len(store[1].cards) >= 2

(* C19: quick move has no effect unless the selection is Selected: with     *)
(* selection None or Highlighted, quick-move-left/right returns without     *)
(* error and leaves the persisted board (the card's column_id) and          *)
(* selected_column unchanged.                                               *)
C19_QuickMoveNeedsSelected ==
    [][ ( reply'.op = "quick_move" /\ app.state = "Board" /\ ~app.card_selected )
        => /\ reply'.res = "Ok"
           /\ store' = store
           /\ app'.state = "Board"
           /\ app'.selected_column = app.selected_column ]_vars

(* a quick move to the right was asked for while a card of the first        *)
(* column was under the cursor and not selected                             *)
C19_Witness ==
    /\ reply.op = "quick_move" /\ reply.direction = "Right"
    /\ app.state = "Board" /\ ~app.card_selected
    /\ app.focus = "Cards" /\ app.selected_column = 0
    /\ App_selected_card_id(app) # None

(* C20: submitting a card form whose title is empty after trimming leaves   *)
(* the view in CardForm, sets an error message, keeps the form data         *)
(* (description, assignee, focused field) as they were, and changes nothing *)
(* in the persisted board: no card is added and next_card_number is not     *)
(* incremented.                                                             *)
C20_BlankTitleRejected ==
    [][ ( reply'.op = "submit_card" /\ Trim(app.form_data.title) = <<>> )
        => /\ app'.state = app.state
           /\ app'.state \in {"CreateCard", "EditCard"}
           /\ app'.error_message # None
           /\ app'.form_data = app.form_data
           /\ app'.form_field = app.form_field
           /\ store' = store ]_vars

(* a form with a title of one no-break space and a description was         *)
(* submitted on an existing board                                           *)
C20_Witness ==
    /\ reply.op = "submit_card"
    /\ app.state = "CreateCard"
    /\ app.error_message = Some("Title is required")
    /\ app.form_data.title = <<" ">>
    /\ app.form_data.description = <<"a">>
    /\ store # None
    /\ app.board # None

(* C21: confirming the MoveCard dialog opened for card X with target index *)
(* t moves X and no other card to columns[t] in the persisted board,       *)
(* reloads, and leaves the app in CardDetail showing the same card X, for  *)
(* every column X started in and every t.                                  *)
C21_ConfirmMoveKeepsCard ==
    [][ ( /\ reply'.op = "move_card_key" /\ reply'.key = Key("Enter")
          /\ App_selected_card_id(app) # None )
        => LET X == App_selected_card_id(app)[1]
               t == app.selected_target_column
               target == app.board[1].columns[t + 1].id
           IN  /\ store' # None
               /\ Len(store'[1].cards) = Len(store[1].cards)
               /\ \A i \in DOMAIN store[1].cards :
                     store'[1].cards[i] =
                        IF store[1].cards[i].id = X
                        THEN [store[1].cards[i] EXCEPT !.column_id = target]
                        ELSE store[1].cards[i]
               /\ app'.board = store'
               /\ app'.state = "CardDetail"
               /\ App_selected_card_id(app') = Some(X) ]_vars

(* C22: cancelling the MoveCard dialog opened for card X, after any number *)
(* of left/right target adjustments, returns the app to CardDetail for the *)
(* same card X and leaves the persisted board unchanged.                    *)
C22_CancelMoveChangesNothing ==
    [][ ( reply'.op = "move_card_key" /\ App_selected_card_id(app) # None )
        => /\ reply'.key \in {Key("Left"), Key("Right")}
                => /\ store' = store
                   /\ app'.state = "MoveCard"
                   /\ App_selected_card_id(app') = App_selected_card_id(app)
           /\ reply'.key = Key("Esc")
                => /\ store' = store
                   /\ app'.board = app.board
                   /\ app'.state = "CardDetail"
                   /\ App_selected_card_id(app') = App_selected_card_id(app) ]_vars

(* the dialog of a card in the first column was cancelled with the target  *)
(* on another column                                                        *)
C22_Witness ==
    /\ reply.op = "move_card_key" /\ reply.key = Key("Esc")
    /\ app.state = "CardDetail"
    /\ App_selected_card_id(app) # None
    /\ app.selected_column = 0
    /\ app.selected_target_column = 2
    /\ store = app.board

(* C26: when the MoveCard dialog opens for a card, its target column index *)
(* is the index of the card's current column; afterwards every left/right  *)
(* key changes the index by exactly one inside [0, columns.len()-1] and is *)
(* a no-op (no error, no change) at the respective edge, so the target     *)
(* index is always a valid column index.                                    *)
C26_TargetIndexValid ==
    /\ [](app.state = "MoveCard"
             => /\ app.board # None
                /\ app.selected_target_column \in 0..(Len(app.board[1].columns) - 1))
    /\ [][ /\ ( app.state # "MoveCard" /\ app'.state = "MoveCard" )
               => LET X == App_selected_card_id(app')[1]
                      b == app'.board[1]
                  IN  /\ App_selected_card_id(app) = Some(X)
                      /\ b.columns[app'.selected_target_column + 1].id =
                            b.cards[FindCard(b.cards, X)].column_id
                      /\ app'.selected_target_column = app'.selected_column
           /\ ( reply'.op = "move_card_key" /\ reply'.key = Key("Left") )
               => /\ app'.selected_target_column =
                        IF app.selected_target_column = 0 THEN 0
                        ELSE app.selected_target_column - 1
                  /\ app' = [app EXCEPT !.selected_target_column =
                                             app'.selected_target_column]
                  /\ reply'.res = "Ok" /\ app'.error_message = None
           /\ ( reply'.op = "move_card_key" /\ reply'.key = Key("Right") )
               => /\ app'.selected_target_column =
                        IF app.selected_target_column = Len(app.board[1].columns) - 1
                        THEN app.selected_target_column
                        ELSE app.selected_target_column + 1
                  /\ app' = [app EXCEPT !.selected_target_column =
                                             app'.selected_target_column]
                  /\ reply'.res = "Ok" /\ app'.error_message = None ]_vars

(* Right was pressed in the dialog of a card of the second of four columns *)
(* and the target is the last column                                        *)
C26_Witness ==
    /\ reply.op = "move_card_key" /\ reply.key = Key("Right")
    /\ app.state = "MoveCard"
    /\ Len(app.board[1].columns) = 4
    /\ app.selected_column = 1
    /\ App_selected_card_id(app) # None
    /\ app.selected_target_column = 3

(* C23: in ConfirmDelete for a card, the affirmative key deletes exactly   *)
(* that card from the persisted board, reloads, and returns to the default *)
(* Board view of View::default (state.rs 34-41): the Board state with      *)
(* selected_column 0 and no card under the cursor; the negative key or     *)
(* cancel returns to CardDetail for the same card with the persisted board *)
(* unchanged.                                                               *)
C23_ConfirmDelete ==
    [][ ( reply'.op = "confirm_delete_key" /\ App_selected_card_id(app) # None )
        => LET X == App_selected_card_id(app)[1]
           IN  /\ reply'.key = Char("y")
                    => /\ store' # None
                       /\ store'[1].cards =
                             SelectSeq(store[1].cards, LAMBDA c : c.id # X)
                       /\ Len(store'[1].cards) = Len(store[1].cards) - 1
                       /\ store'[1].columns =
                             [i \in DOMAIN store[1].columns |->
                                [store[1].columns[i] EXCEPT
                                   !.cards = SelectSeq(@, LAMBDA id : id # X)]]
                       /\ store'[1].next_card_number = store[1].next_card_number
                       /\ app'.board = store'
                       /\ app'.state = "Board"
                       /\ app'.selected_column = View_default.selected_column
                       /\ app'.selected_card = None
                       /\ App_selected_card_id(app') = None
               /\ reply'.key \in {Char("n"), Key("Esc")}
                    => /\ store' = store
                       /\ app'.board = app.board
                       /\ app'.state = "CardDetail"
                       /\ App_selected_card_id(app') = Some(X) ]_vars

(* C25: selecting a card is a two-step protocol: the first Enter on a      *)
(* highlighted card keeps the Board state and selects that card; only a    *)
(* second Enter opens CardDetail for the same card.  CardDetail is never   *)
(* entered by Enter from a card that Up/Down has merely highlighted.       *)
C25_FirstEnterKeepsBoard ==
    [][ ( /\ reply.op = "board_key" /\ reply.key \in {Key("Up"), Key("Down")}
          /\ app.focus = "Cards" /\ App_selected_card_id(app) # None
          /\ reply'.op = "board_key" /\ reply'.key = Key("Enter") )
        => /\ app'.state = "Board"
           /\ App_selected_card_id(app') = App_selected_card_id(app) ]_vars

(* C27: submitting a Create form with a non-empty title adds exactly one   *)
(* card carrying the form's title, description and assignee (blank         *)
(* description/assignee stored as unset) to the column that was selected   *)
(* when the form was opened, reloads the board, clears the form data, and  *)
(* returns to the Board state.                                              *)
C27_SubmitCreatesFormCard ==
    [][ ( /\ reply'.op = "submit_card" /\ app.state = "CreateCard"
          /\ Trim(app.form_data.title) # <<>>
          /\ store # None /\ app.board = store )
        => LET b == store[1]
               n == Len(b.cards)
               column == b.columns[app.selected_column + 1]
           IN  /\ store' # None
               /\ Len(store'[1].cards) = n + 1
               /\ SubSeq(store'[1].cards, 1, n) = b.cards
               /\ LET card == store'[1].cards[n + 1]
                  IN  /\ card.title = app.form_data.title
                      /\ card.description =
                            IF Trim(app.form_data.description) = <<>> THEN None
                            ELSE Some(app.form_data.description)
                      /\ card.assignee =
                            IF Trim(app.form_data.assignee) = <<>> THEN None
                            ELSE Some(app.form_data.assignee)
                      /\ card.column_id = column.id
                      /\ store'[1].columns[app.selected_column + 1].cards =
                            Append(column.cards, card.id)
               /\ app'.board = store'
               /\ app'.form_data = CardFormData_default
               /\ app'.state = "Board" ]_vars

(* C29: cancelling a card form, whatever has been typed and whichever      *)
(* field is focused, resets title, description and assignee to empty,      *)
(* returns to the Board state, and leaves the persisted board unchanged.   *)
C29_CancelDiscardsForm ==
    [][ ( /\ reply'.op = "form_key" /\ reply'.key = Key("Esc")
          /\ app.input_mode = "Normal" )
        => /\ app'.form_data.title = <<>>
           /\ app'.form_data.description = <<>>
           /\ app'.form_data.assignee = <<>>
           /\ app'.state = "Board"
           /\ app'.board = app.board
           /\ store' = store ]_vars

(* a form with two typed characters was cancelled on an existing board     *)
C29_Witness ==
    /\ reply.op = "form_key" /\ reply.key = Key("Esc")
    /\ reply.typed = 2
    /\ app.state = "Board"
    /\ app.form_data = CardFormData_default
    /\ store # None /\ store[1].cards = <<>>

(* C30: in a card form with input_mode = Normal, typing any character c    *)
(* switches input_mode to Editing and appends c to the focused field; no   *)
(* typed character is dropped or read as a command instead.                *)
C30_FirstKeystrokeIsInput ==
    [][ ( /\ reply'.op = "form_key" /\ reply'.key.code = "Char"
          /\ app.input_mode = "Normal" )
        => /\ app'.input_mode = "Editing"
           /\ app' = [App_push_input(app, reply'.key.c) EXCEPT !.input_mode = "Editing"]
           /\ Typed(app') = Typed(app) + 1 ]_vars

(* C28: submitting a card form in Edit mode with a non-empty title updates *)
(* that existing card's title/description/assignee and creates no card:    *)
(* the number of cards and next_card_number are the same before and after  *)
(* the submit.                                                              *)
C28_EditCreatesNoCard ==
    [][ ( /\ reply'.op = "submit_card" /\ app.state = "EditCard"
          /\ Trim(app.form_data.title) # <<>>
          /\ store # None /\ app.board = store
          /\ App_selected_card_id(app) # None )
        => /\ store' # None
           /\ Len(store'[1].cards) = Len(store[1].cards)
           /\ store'[1].next_card_number = store[1].next_card_number ]_vars

(* C24: whenever a service call issued by a TUI action fails (form submit, *)
(* move confirm, delete confirm), the state of the app stays where it was, *)
(* the form data are preserved, and an error message is set on the app.    *)
C24_FailureKeepsViewAndReports ==
    [][ ( \/ /\ reply'.op = "submit_card"
              /\ App_submit_card(app, store).res # "Ok"
           \/ /\ reply'.op = "move_card_key" /\ reply'.key = Key("Enter")
              /\ reply'.res # "Ok"
           \/ /\ reply'.op = "confirm_delete_key" /\ reply'.key = Char("y")
              /\ reply'.res # "Ok" )
        => /\ app'.state = app.state
           /\ app'.form_data = app.form_data
           /\ app'.form_field = app.form_field
           /\ app'.error_message # None
           /\ store' = store ]_vars

(* C31: Esc or 'q' in the card detail returns to the board with no card    *)
(* under the cursor and the app keeps running; the app quits only on 'q'    *)
(* pressed while the state already is Board.                                *)
C31_DetailBackKeepsRunning ==
    [][ /\ (reply'.op = "run_app_key" /\ events.queue # <<>>
             /\ events'.queue = Tail(events.queue)
             /\ app.state = "CardDetail"
             /\ reply'.key \in {Key("Esc"), Char("q")})
            => /\ app'.state = "Board"
               /\ app'.selected_card = None
               /\ ~should_quit'
        /\ (should_quit' /\ ~should_quit)
            => (app.state = "Board" /\ reply'.key = Char("q")) ]_vars

(* C32: in the Board state with no highlighted card, 'up' in a column that *)
(* shows cards highlights the bottom card (index count - 1) and 'down' the  *)
(* top card (index 0); in a column that shows none the selection stays      *)
(* None.                                                                    *)
C32_VerticalPromotesHighlight ==
    [][ (reply'.op = "board_key" /\ app.board # None /\ app.selected_card = None
         /\ reply'.key \in {Key("Up"), Key("Down")})
        => LET card_count == Len(CardsShownIn(app.board[1], app.selected_column))
           IN  /\ (card_count > 0 /\ reply'.key = Key("Up"))
                      => app'.selected_card = Some(card_count - 1)
               /\ (card_count > 0 /\ reply'.key = Key("Down"))
                      => app'.selected_card = Some(0)
               /\ card_count = 0 => app'.selected_card = None ]_vars

(* C33: with a highlighted card, every left or right that changes the      *)
(* selected column resets the selection to None, and nothing but left and   *)
(* right in the Board state changes the selected column: a highlight never  *)
(* refers to a column other than selected_column.                           *)
C33_ColumnChangeClearsHighlight ==
    [][ (~app.card_selected /\ app'.selected_column # app.selected_column)
        => /\ app'.selected_card = None
           /\ app'.focus = "Columns"
           /\ reply'.op = "board_key"
           /\ reply'.key \in {Key("Left"), Key("Right")} ]_vars

(* right was pressed with a card under the cursor, and the cursor is in     *)
(* the next column with no card highlighted                                 *)
C33_Witness ==
    /\ reply.op = "board_key" /\ reply.key = Key("Right")
    /\ reply.card_id # None
    /\ app.selected_column = 1
    /\ app.selected_card = None

(* C34: after every action of the TUI that changes the persisted board     *)
(* (form submit, move confirm, quick move, delete confirm) the cached board *)
(* equals the persisted board, and the cached board is never modified       *)
(* except by reloading it from the store.                                   *)
C34_CacheFollowsStore ==
    [][ /\ (store' # store
             /\ reply'.op \in {"submit_card", "form_key", "move_card_key",
                               "confirm_delete_key", "quick_move"})
            => app'.board = store'
        /\ app'.board # app.board
            => (store' # None /\ app'.board = BoardService_load(store').board) ]_vars

(* the move dialog was confirmed, the card is in another column of the      *)
(* persisted board, and the cached board is the persisted one               *)
C34_Witness ==
    /\ reply.op = "move_card_key" /\ reply.key = Key("Enter") /\ reply.res = "Ok"
    /\ store # None /\ app.board = store
    /\ \E k \in DOMAIN store[1].cards : store[1].cards[k].column_id # DefaultColumnId

(* C36: in every reachable Board state with a board, selected_column is an *)
(* index of a column, and a highlighted card index is smaller than the      *)
(* number of cards shown in the selected column (so no card is highlighted  *)
(* in an empty column).                                                     *)
C36_CursorInRange ==
    (app.state = "Board" /\ app.board # None)
    => /\ app.selected_column \in 0..(Len(app.board[1].columns) - 1)
       /\ app.selected_card # None
           => app.selected_card[1] < Len(CardsShownIn(app.board[1], app.selected_column))

(* C37: while the help is shown, every key other than Esc and '?' leaves   *)
(* the interrupted view, the form data and the persisted board unchanged,   *)
(* and Esc or '?' closes the help and returns exactly to the prior view.    *)
C37_HelpSwallowsKeys ==
    [][ (reply'.op = "run_app_key" /\ events.queue # <<>>
         /\ events'.queue = Tail(events.queue)
         /\ app.show_help)
        => /\ store' = store
           /\ ~should_quit'
           /\ IF reply'.key \in {Key("Esc"), Char("?")}
              THEN app' = App_clear_error([app EXCEPT !.show_help = FALSE])
              ELSE app' = app ]_vars

(* C38: whenever the view is one that works on a card (card detail, move   *)
(* dialog, delete confirmation, edit form), a card with the id the view     *)
(* resolves exists in the cached board, after any sequence of keys.         *)
C38_ViewCardExists ==
    app.state \in {"CardDetail", "MoveCard", "ConfirmDelete", "EditCard"}
    => /\ app.board # None
       /\ App_selected_card_id(app) # None
       /\ CardExists(app.board[1], App_selected_card_id(app)[1])

(* C39: for every column and every index i, the card the TUI resolves for  *)
(* the highlighted index i of that column is the card whose id is the i-th  *)
(* element of the column's `cards` sequence (the manual order), after any   *)
(* create and move.                                                         *)
C39_CursorFollowsColumnOrder ==
    app.board # None
    => \A c \in DOMAIN app.board[1].columns :
          LET column == app.board[1].columns[c]
          IN  \A i \in 0..(Len(column.cards) - 1) :
                 App_selected_card_id([app EXCEPT !.selected_column = c - 1,
                                                  !.selected_card = Some(i)])
                    = Some(column.cards[i + 1])

(* C40: create_card with a column_id that names no column of the board, or *)
(* with none given on a board without the default column, still consumes a  *)
(* card number and appends the card to Board.cards, while no column's       *)
(* `cards` gains the id; nothing else changes.                              *)
C40_UnknownColumnCard ==
    [][ LET target == IF last'.column = None THEN DefaultColumnId ELSE last'.column[1]
            n == Len(board.cards)
        IN  (last'.op = "create_card" /\ ~ColumnExists(board, target))
            => /\ last'.card_id = Some(FormatCardId(CardIdPrefix, board.next_card_number))
               /\ board'.next_card_number = board.next_card_number + 1
               /\ Len(board'.cards) = n + 1
               /\ SubSeq(board'.cards, 1, n) = board.cards
               /\ board'.cards[n + 1].id = last'.card_id[1]
               /\ board'.cards[n + 1].column_id = target
               /\ board'.columns = board.columns ]_vars

(* a card was created with no column_id on a board without the default      *)
(* column: it is a card of the board and no column lists it                 *)
C40_Witness ==
    /\ last.op = "create_card" /\ last.column = None
    /\ ~ColumnExists(board, DefaultColumnId)
    /\ CardExists(board, last.card_id[1])
    /\ \A i \in DOMAIN board.columns : Count(board.columns[i].cards, last.card_id[1]) = 0

(* C35: EventHandler::stop eventually returns: once stop is called, the    *)
(* producer thread terminates and is joined, in every interleaving.         *)
C35_StopReturns == (events.stop = "joining") ~> (events.stop = "returned")

====
